---- MODULE Spec2Model ----
(***************************************************************************)
(* Model of the two-stage workflow verifier:                               *)
(*   - the Verification Stage (build-logger: runCommand, runAllTests,      *)
(*     filterLogScriptErrors, checkIfErrorIsRecurrent,                     *)
(*     generateComprehensiveLog, main), source src/unnamed/part_000;       *)
(*   - the Diagnostic Stage (analyze-logs: findMostRecentLog, hasError,    *)
(*     scanProjectForErrors, analyzeLogs), source src/update-scripts.js.   *)
(*                                                                         *)
(* Texts are TLA+ strings and the string operations of the source          *)
(* (includes, split, join, trim, toLowerCase) are modelled character by    *)
(* character.  Characters outside ASCII in the source's literals are       *)
(* written with ASCII stand-ins, the same stand-in wherever the source     *)
(* uses the same character:                                                *)
(*   U+274C cross mark -> "(x)"     U+2705 check mark -> "(v)"             *)
(*   U+26A0 warning    -> "(!)"     U+1F527 wrench    -> "(f)"             *)
(*   U+1F6A8 siren     -> "(a)"     U+1F4CA bar chart -> "(r)"             *)
(*   U+1F4C8 chart     -> "(t)"     U+1F4CB clipboard -> "(d)"             *)
(*   U+2139 info       -> "(i)"     accented letters  -> plain letters     *)
(***************************************************************************)
EXTENDS Integers, Sequences, FiniteSets, TLC

(***************************************************************************)
(* Bounds                                                                  *)
(***************************************************************************)
\* longest result list given to the pure functions (SpecPure)
MaxResults == 2
\* most output lines, over all results of one list (SpecPure)
MaxLines == 2
\* most events of one behaviour that are not plain successes: child
\* processes that do anything but exit 0 silently, file system calls that
\* throw, whole runs with a failing check (Spec, SpecRuns)
MaxAbnormal == 2
\* most runs of the two stages in one behaviour (SpecRuns)
MaxRuns == 3
\* last minute of the wall clock (SpecRuns)
MaxMinute == 1
\* most reports in the directory the detector is given (SpecHistory)
MaxHistory == 4
\* most lines of the file analyzeSpecificFile reads (SpecDiagnose)
MaxFileLines == 8
\* greatest line number of the located diagnostic (SpecDiagnose)
MaxLineNumber == 6

(***************************************************************************)
(* String operations of the JavaScript runtime                             *)
(***************************************************************************)
\* String.prototype.includes
Includes(s, p) ==
  LET first == SubSeq(p, 1, 1)
      n == Len(p)
  IN \/ p = ""
     \/ \E i \in 1..(Len(s) - n + 1) :
           SubSeq(s, i, i) = first /\ SubSeq(s, i, i + n - 1) = p

\* the lower-case letter of each upper-case letter
LowerCaseOf ==
  LET upper == <<"A", "B", "C", "D", "E", "F", "G", "H", "I", "J", "K", "L", "M",
                 "N", "O", "P", "Q", "R", "S", "T", "U", "V", "W", "X", "Y", "Z">>
      lower == <<"a", "b", "c", "d", "e", "f", "g", "h", "i", "j", "k", "l", "m",
                 "n", "o", "p", "q", "r", "s", "t", "u", "v", "w", "x", "y", "z">>
  IN [c \in {upper[k] : k \in 1..26} |-> lower[CHOOSE k \in 1..26 : upper[k] = c]]

LowerChar(c) == IF c \in DOMAIN LowerCaseOf THEN LowerCaseOf[c] ELSE c

\* String.prototype.toLowerCase
RECURSIVE ToLowerCase(_)
ToLowerCase(s) ==
  IF s = "" THEN ""
  ELSE LowerChar(SubSeq(s, 1, 1)) \o ToLowerCase(SubSeq(s, 2, Len(s)))

\* s.toLowerCase().includes(p.toLowerCase()): lower-casing maps character
\* to character, so it is decided window by window
IncludesIgnoreCase(s, p) ==
  LET lp == ToLowerCase(p)
      first == SubSeq(lp, 1, 1)
      firsts == {first} \cup {c \in DOMAIN LowerCaseOf : LowerCaseOf[c] = first}
  IN \/ lp = ""
     \/ \E i \in 1..(Len(s) - Len(p) + 1) :
           /\ SubSeq(s, i, i) \in firsts
           /\ ToLowerCase(SubSeq(s, i, i + Len(p) - 1)) = lp

IsWhitespace(c) == c \in {" ", "\n", "\t", "\r"}

RECURSIVE TrimStart(_)
TrimStart(s) ==
  IF Len(s) > 0 /\ IsWhitespace(SubSeq(s, 1, 1))
  THEN TrimStart(SubSeq(s, 2, Len(s)))
  ELSE s

RECURSIVE TrimEnd(_)
TrimEnd(s) ==
  IF Len(s) > 0 /\ IsWhitespace(SubSeq(s, Len(s), Len(s)))
  THEN TrimEnd(SubSeq(s, 1, Len(s) - 1))
  ELSE s

\* String.prototype.trim
Trim(s) == TrimEnd(TrimStart(s))

\* String.prototype.split with a one-character separator
RECURSIVE Split(_, _)
Split(s, sep) ==
  IF Includes(s, sep)
  THEN LET i == CHOOSE k \in 1..Len(s) :
                  /\ SubSeq(s, k, k) = sep
                  /\ \A j \in 1..(k - 1) : SubSeq(s, j, j) # sep
       IN <<SubSeq(s, 1, i - 1)>> \o Split(SubSeq(s, i + 1, Len(s)), sep)
  ELSE <<s>>

\* Array.prototype.join
RECURSIVE Join(_, _)
Join(parts, sep) ==
  IF Len(parts) = 0 THEN ""
  ELSE IF Len(parts) = 1 THEN parts[1]
  ELSE parts[1] \o sep \o Join(Tail(parts), sep)

\* concatenation of a sequence of strings
Concat(parts) == Join(parts, "")

\* String.prototype.repeat
RECURSIVE Repeat(_, _)
Repeat(s, n) == IF n = 0 THEN "" ELSE s \o Repeat(s, n - 1)

(***************************************************************************)
(* CommandExecutor: the two results runCommand can resolve with            *)
(***************************************************************************)
\* new Date().toISOString() and its pt-BR rendering, at a fixed instant
IsoTimestamp == "2025-01-01T12:00:00.000Z"
LocalTimestamp == "01/01/2025, 12:00:00"

\* 'close' handler: the result built from the exit code and the captured text
CloseResult(command, description, code, stdout, stderr) ==
  [ command     |-> command,
    description |-> description,
    code        |-> code,
    success     |-> (code = 0),
    stdout      |-> Trim(stdout),
    stderr      |-> Trim(stderr),
    output      |-> Trim(stdout \o stderr),
    timestamp   |-> IsoTimestamp,
    skipped     |-> FALSE,
    filtered    |-> FALSE ]

ErrorResultAsSuccess(command, description, message) ==
  [ command     |-> command,
    description |-> description,
    code        |-> -1,
    success     |-> TRUE,
    stdout      |-> "",
    stderr      |-> message,
    output      |-> message,
    timestamp   |-> IsoTimestamp,
    skipped     |-> TRUE,
    filtered    |-> FALSE ]

\* 'error' handler: the result built from the spawn error
ErrorResult(command, description, message) ==
  [ command     |-> command,
    description |-> description,
    code        |-> -1,
    success     |-> FALSE,
    stdout      |-> "",
    stderr      |-> message,
    output      |-> message,
    timestamp   |-> IsoTimestamp,
    skipped     |-> TRUE,
    filtered    |-> FALSE ]

(***************************************************************************)
(* NoiseFilter                                                             *)
(***************************************************************************)
logScriptFiles == <<"build-logger.js", "analyze-logs.js", "setup-ignore-scripts.js">>

hasScriptReference(line) ==
  \E k \in 1..Len(logScriptFiles) :
     LET scriptFile == logScriptFiles[k]
     IN \/ Includes(line, scriptFile)
        \/ Includes(line, "./" \o scriptFile)
        \/ Includes(line, "/" \o scriptFile)
        \/ Includes(line, "\"" \o scriptFile \o "\"")
        \/ Includes(line, "'" \o scriptFile \o "'")

filterLogScriptLinesFirstOnly(text) ==
  IF text = "" THEN ""
  ELSE LET lines == Split(text, "\n")
       IN IF \E k \in 1..Len(lines) : hasScriptReference(lines[k])
          THEN LET first == CHOOSE k \in 1..Len(lines) :
                              /\ hasScriptReference(lines[k])
                              /\ \A j \in 1..(k - 1) : ~hasScriptReference(lines[j])
               IN Join(SubSeq(lines, 1, first - 1) \o SubSeq(lines, first + 1, Len(lines)), "\n")
          ELSE text

filterLogScriptLines(text) ==
  IF text = "" THEN ""
  ELSE Join(SelectSeq(Split(text, "\n"), LAMBDA line : ~hasScriptReference(line)), "\n")

errorIndicators ==
  <<"error", "Error:", "TypeError:", "SyntaxError:", "ReferenceError:",
    "warning", "Warning:", "fail", "failed", "FAIL", "FAILED">>

checkForRemainingErrorsStderrOnly(output, stdout, stderr) ==
  LET combinedText == Trim(stderr)
  IN IF combinedText = "" THEN FALSE
     ELSE \E k \in 1..Len(errorIndicators) :
             IncludesIgnoreCase(combinedText, errorIndicators[k])

checkForRemainingErrors(output, stdout, stderr) ==
  LET combinedText == Trim(output \o stdout \o stderr)
  IN IF combinedText = "" THEN FALSE
     ELSE \E k \in 1..Len(errorIndicators) :
             IncludesIgnoreCase(combinedText, errorIndicators[k])

hasLogScriptError(result) ==
  \E k \in 1..Len(logScriptFiles) :
     \/ Includes(result.output, logScriptFiles[k])
     \/ Includes(result.stdout, logScriptFiles[k])
     \/ Includes(result.stderr, logScriptFiles[k])

filterOneResultUnguarded(result) ==
  IF hasLogScriptError(result)
  THEN LET filteredOutput == filterLogScriptLines(result.output)
           filteredStdout == filterLogScriptLines(result.stdout)
           filteredStderr == filterLogScriptLines(result.stderr)
       IN IF ~checkForRemainingErrors(filteredOutput, filteredStdout, filteredStderr)
          THEN [result EXCEPT !.success = TRUE, !.code = 0, !.output = "",
                              !.stdout = "", !.stderr = "", !.filtered = TRUE]
          ELSE [result EXCEPT !.output = filteredOutput, !.stdout = filteredStdout,
                              !.stderr = filteredStderr, !.filtered = TRUE]
  ELSE result

filterOneResult(result) ==
  IF result.skipped \/ result.success THEN result
  ELSE IF hasLogScriptError(result)
  THEN LET filteredOutput == filterLogScriptLines(result.output)
           filteredStdout == filterLogScriptLines(result.stdout)
           filteredStderr == filterLogScriptLines(result.stderr)
       IN IF ~checkForRemainingErrors(filteredOutput, filteredStdout, filteredStderr)
          THEN [result EXCEPT !.success = TRUE, !.code = 0, !.output = "",
                              !.stdout = "", !.stderr = "", !.filtered = TRUE]
          ELSE [result EXCEPT !.output = filteredOutput, !.stdout = filteredStdout,
                              !.stderr = filteredStderr, !.filtered = TRUE]
  ELSE result

filterLogScriptErrors(testResults) ==
  [i \in 1..Len(testResults) |-> filterOneResult(testResults[i])]

(***************************************************************************)
(* ReportGenerator: the text generateComprehensiveLog renders              *)
(***************************************************************************)
OverallSuccessIgnoringSkipped(testResults) ==
  \A i \in 1..Len(testResults) : testResults[i].success

OverallSuccess(testResults) ==
  \A i \in 1..Len(testResults) : testResults[i].success \/ testResults[i].skipped

CountWhere(testResults, Test(_)) ==
  Cardinality({i \in 1..Len(testResults) : Test(testResults[i])})

Descriptions(testResults) ==
  [i \in 1..Len(testResults) |-> testResults[i].description]
RenderEnvironmentFromSchema(prismaInstalled, prismaSchemaExists) ==
  "(f) INFORMACOES DO AMBIENTE\n"
  \o Repeat("-", 30) \o "\n"
  \o "Node.js: v20.11.0\n"
  \o "Plataforma: linux\n"
  \o "Prisma instalado: " \o (IF prismaSchemaExists THEN "Sim" ELSE "Nao") \o "\n"
  \o "Schema Prisma: " \o (IF prismaSchemaExists THEN "Encontrado" ELSE "Nao encontrado") \o "\n"
  \o "\n"

RenderEnvironment(prismaInstalled, prismaSchemaExists) ==
  "(f) INFORMACOES DO AMBIENTE\n"
  \o Repeat("-", 30) \o "\n"
  \o "Node.js: v20.11.0\n"
  \o "Plataforma: linux\n"
  \o "Prisma instalado: " \o (IF prismaInstalled THEN "Sim" ELSE "Nao") \o "\n"
  \o "Schema Prisma: " \o (IF prismaSchemaExists THEN "Encontrado" ELSE "Nao encontrado") \o "\n"
  \o "\n"

RenderStatus(testResults, isRecurrent) ==
  IF OverallSuccess(testResults)
  THEN "(v) Status: SUCESSO\n\n"
       \o (LET filteredTests == SelectSeq(testResults, LAMBDA r : r.filtered)
           IN IF Len(filteredTests) > 0
              THEN "(f) FILTROS APLICADOS: Erros dos scripts de log foram removidos automaticamente.\n"
                   \o "Arquivos filtrados: " \o Join(Descriptions(filteredTests), ", ") \o "\n\n"
              ELSE "")
       \o "Todos os testes passaram com sucesso!\n\n"
  ELSE "(x) Status: ERRO\n\n"
       \o (IF isRecurrent
           THEN "(!)  ERRO RECORRENTE: Problemas similares ja foram detectados em logs anteriores.\n\n"
           ELSE "")

RenderSummary(testResults) ==
  LET successCount  == CountWhere(testResults, LAMBDA r : r.success)
      failedCount   == CountWhere(testResults, LAMBDA r : ~r.success /\ ~r.skipped)
      skippedCount  == CountWhere(testResults, LAMBDA r : r.skipped)
      filteredCount == CountWhere(testResults, LAMBDA r : r.filtered)
  IN "(r) RESUMO DOS TESTES\n"
     \o Repeat("-", 30) \o "\n"
     \o "(v) Sucessos: " \o ToString(successCount) \o "\n"
     \o "(x) Falhas: " \o ToString(failedCount) \o "\n"
     \o "(!)  Ignorados: " \o ToString(skippedCount) \o "\n"
     \o (IF filteredCount > 0
         THEN "(f) Filtrados: " \o ToString(filteredCount)
              \o " (erros de scripts de log removidos)\n"
         ELSE "")
     \o "(t) Total: " \o ToString(Len(testResults)) \o "\n\n"

StatusLabel(result) ==
  IF result.skipped THEN "(!)  IGNORADO"
  ELSE IF result.success /\ result.filtered THEN "(f) SUCESSO (FILTRADO)"
  ELSE IF result.success THEN "(v) SUCESSO"
  ELSE IF result.filtered THEN "(f) FALHOU (FILTRADO)"
  ELSE "(x) FALHOU"

RenderOutputLines(output) ==
  LET outputLines == Split(output, "\n")
  IN Concat([k \in 1..Len(outputLines) |->
               IF Trim(outputLines[k]) # "" THEN "     " \o outputLines[k] \o "\n" ELSE ""])

RenderDetailWithFilteredOutput(result, index) ==
  ToString(index) \o ". " \o result.description \o "\n"
  \o "   Status: " \o StatusLabel(result) \o "\n"
  \o "   Comando: " \o result.command \o "\n"
  \o "   Codigo de saida: " \o ToString(result.code) \o "\n"
  \o "   Horario: " \o LocalTimestamp \o "\n"
  \o (IF Len(result.output) > 0
      THEN "   Output:\n" \o RenderOutputLines(result.output)
      ELSE IF result.filtered
      THEN "   (i)  Output: [Filtrado - erros dos scripts de log removidos]\n"
      ELSE "")
  \o "\n"

RenderDetail(result, index) ==
  ToString(index) \o ". " \o result.description \o "\n"
  \o "   Status: " \o StatusLabel(result) \o "\n"
  \o "   Comando: " \o result.command \o "\n"
  \o "   Codigo de saida: " \o ToString(result.code) \o "\n"
  \o "   Horario: " \o LocalTimestamp \o "\n"
  \o (IF ~result.filtered /\ Len(result.output) > 0
      THEN "   Output:\n" \o RenderOutputLines(result.output)
      ELSE IF result.filtered
      THEN "   (i)  Output: [Filtrado - erros dos scripts de log removidos]\n"
      ELSE "")
  \o "\n"

RenderDetails(testResults) ==
  "(d) DETALHES DOS TESTES\n"
  \o Repeat("-", 30) \o "\n\n"
  \o Concat([i \in 1..Len(testResults) |-> RenderDetail(testResults[i], i)])

RenderFailed(result, index) ==
  "Erro " \o ToString(index) \o ": " \o result.description \o "\n"
  \o Repeat("-", 20) \o "\n"
  \o (IF result.stderr # ""
      THEN "Detalhes do erro:\n" \o result.stderr \o "\n\n" ELSE "")
  \o (IF result.stdout # "" /\ result.stdout # result.stderr
      THEN "Output adicional:\n" \o result.stdout \o "\n\n" ELSE "")
RenderDetailedErrorsFilteredToo(testResults) ==
  LET failedTests == SelectSeq(testResults, LAMBDA r : ~r.success /\ ~r.skipped)
  IN IF Len(failedTests) > 0
     THEN "(a) ERROS DETALHADOS\n"
          \o Repeat("-", 30) \o "\n\n"
          \o Concat([i \in 1..Len(failedTests) |-> RenderFailed(failedTests[i], i)])
     ELSE ""

RenderDetailedErrors(testResults) ==
  LET failedTests == SelectSeq(testResults,
                       LAMBDA r : ~r.success /\ ~r.skipped /\ ~r.filtered)
  IN IF Len(failedTests) > 0
     THEN "(a) ERROS DETALHADOS\n"
          \o Repeat("-", 30) \o "\n\n"
          \o Concat([i \in 1..Len(failedTests) |-> RenderFailed(failedTests[i], i)])
     ELSE ""

RenderFilteredErrors(testResults) ==
  LET filteredFailedTests == SelectSeq(testResults, LAMBDA r : ~r.success /\ r.filtered)
  IN IF Len(filteredFailedTests) > 0
     THEN "(f) ERROS FILTRADOS\n"
          \o Repeat("-", 30) \o "\n\n"
          \o Concat([i \in 1..Len(filteredFailedTests) |->
                "Filtrado " \o ToString(i) \o ": " \o filteredFailedTests[i].description \o "\n"
                \o Repeat("-", 20) \o "\n"
                \o "Tipo: Erros dos scripts de log removidos\n"
                \o "Motivo: Continha referencias a build-logger.js, analyze-logs.js ou setup-ignore-scripts.js\n\n"])
     ELSE ""

RenderFooter(testResults, prismaInstalled, prismaSchemaExists) ==
  Repeat("=", 60) \o "\n"
  \o "Testes executados: " \o Join(Descriptions(testResults), ", ") \o "\n"
  \o (IF ~prismaInstalled \/ ~prismaSchemaExists
      THEN "Testes ignorados: "
           \o (IF ~prismaInstalled THEN "Prisma (nao instalado)"
               ELSE "Prisma (schema nao encontrado)")
           \o "\n"
      ELSE "")
  \o "Data/Hora: " \o IsoTimestamp \o "\n"
  \o "Duracao total: 3s\n"

generateComprehensiveLog(testResults, isRecurrent, prismaInstalled, prismaSchemaExists) ==
  "[" \o IsoTimestamp \o "] Relatorio Completo de Testes\n"
  \o Repeat("=", 60) \o "\n\n"
  \o RenderEnvironment(prismaInstalled, prismaSchemaExists)
  \o RenderStatus(testResults, isRecurrent)
  \o RenderSummary(testResults)
  \o RenderDetails(testResults)
  \o RenderDetailedErrors(testResults)
  \o RenderFilteredErrors(testResults)
  \o RenderFooter(testResults, prismaInstalled, prismaSchemaExists)

(***************************************************************************)
(* DiagnosticEngine: classification of a report text                      *)
(***************************************************************************)
hasErrorIndicators ==
  <<"(x) Status: ERRO", "Status: ERRO", "(x) Falhas:", "Falhas: [1-9]",
    "ERROS DETALHADOS", "Build falhou", "Error:", "TypeError:",
    "SyntaxError:", "ReferenceError:">>

\* /(x) Falhas: [1-9]\d*/.test(logContent)
MatchesFailureCount(logContent) ==
  LET prefix == "(x) Falhas: "
      IsNonZeroDigit(c) == c \in {"1", "2", "3", "4", "5", "6", "7", "8", "9"}
  IN \E i \in 1..(Len(logContent) - Len(prefix)) :
        /\ SubSeq(logContent, i, i + Len(prefix) - 1) = prefix
        /\ IsNonZeroDigit(SubSeq(logContent, i + Len(prefix), i + Len(prefix)))

hasError(logContent) ==
  \/ \E k \in 1..Len(hasErrorIndicators) :
        IncludesIgnoreCase(logContent, hasErrorIndicators[k])
  \/ MatchesFailureCount(logContent)

(***************************************************************************)
(* DiagnosticEngine: extractErrorDetails                                   *)
(***************************************************************************)
CharAt(s, i) == SubSeq(s, i, i)

\* p occurs in s at index i
StartsAt(s, i, p) ==
  i >= 1 /\ i + Len(p) - 1 <= Len(s) /\ SubSeq(s, i, i + Len(p) - 1) = p

\* String.prototype.indexOf from index from, 0 when p does not occur
IndexOf(s, p, from) ==
  LET first == SubSeq(p, 1, 1)
      found == {i \in from..(Len(s) - Len(p) + 1) :
                  CharAt(s, i) = first /\ StartsAt(s, i, p)}
  IN IF found = {} THEN 0 ELSE CHOOSE i \in found : \A k \in found : i <= k

Digits == <<"0", "1", "2", "3", "4", "5", "6", "7", "8", "9">>

\* \d
IsDigit(c) == \E k \in 1..10 : Digits[k] = c

\* the index after the longest run of digits that starts at i
DigitRunEnd(s, i) ==
  CHOOSE e \in i..(Len(s) + 1) :
    /\ \A k \in i..(e - 1) : IsDigit(CharAt(s, k))
    /\ e = Len(s) + 1 \/ ~IsDigit(CharAt(s, e))

\* the index after the longest run of white space that starts at i
SpaceRunEnd(s, i) ==
  CHOOSE e \in i..(Len(s) + 1) :
    /\ \A k \in i..(e - 1) : IsWhitespace(CharAt(s, k))
    /\ e = Len(s) + 1 \/ ~IsWhitespace(CharAt(s, e))

\* the characters '.' of a regular expression does not match
IsLineTerminator(c) == c \in {"\n", "\r"}

\* the index of the first line terminator at or after i, Len(s) + 1 if none
LineEnd(s, i) ==
  CHOOSE e \in i..(Len(s) + 1) :
    /\ \A k \in i..(e - 1) : ~IsLineTerminator(CharAt(s, k))
    /\ e = Len(s) + 1 \/ IsLineTerminator(CharAt(s, e))

\* the first index of the run of \S characters that ends at i
RECURSIVE NonSpaceRunStart(_, _)
NonSpaceRunStart(s, i) ==
  IF i = 0 \/ IsWhitespace(CharAt(s, i)) THEN i + 1
  ELSE NonSpaceRunStart(s, i - 1)

\* the value of a text of digits
RECURSIVE DigitsValue(_)
DigitsValue(text) ==
  LET DigitValue(c) == (CHOOSE k \in 1..10 : Digits[k] = c) - 1
  IN IF text = "" THEN 0
     ELSE 10 * DigitsValue(SubSeq(text, 1, Len(text) - 1))
          + DigitValue(CharAt(text, Len(text)))

\* the values of lineNumber: null, NaN, or a number n as
\* [kind |-> "number", value |-> n]
Null == [kind |-> "null", value |-> 0]
NaN == [kind |-> "NaN", value |-> 0]

\* parseInt: white space, an optional sign, then the longest run of digits
parseInt(text) ==
  LET start == SpaceRunEnd(text, 1)
      signed == StartsAt(text, start, "-") \/ StartsAt(text, start, "+")
      first == IF signed THEN start + 1 ELSE start
      end == DigitRunEnd(text, first)
      magnitude == DigitsValue(SubSeq(text, first, end - 1))
  IN IF first > Len(text) \/ end = first THEN NaN
     ELSE IF StartsAt(text, start, "-")
     THEN [kind |-> "number", value |-> 0 - magnitude]
     ELSE [kind |-> "number", value |-> magnitude]

\* \.tsx? at index j: the index after it, 0 when it does not match
TsExtensionEnd(s, j) ==
  IF StartsAt(s, j, ".tsx") THEN j + 4
  ELSE IF StartsAt(s, j, ".ts") THEN j + 3
  ELSE 0

NoMatch == [found |-> FALSE, fileName |-> "", lineNumber |-> Null]

\* the first match of (\S+ \.tsx?) followed by a tail: the leftmost start is
\* the start of the run of \S characters before the first tail, and the
\* greedy \S+ ends before the last tail that this run reaches
FirstFileWithTail(s, tails) ==
  LET reached == {j \in tails : j >= 2 /\ ~IsWhitespace(CharAt(s, j - 1))}
  IN IF reached = {} THEN 0
     ELSE LET j0 == CHOOSE j \in reached : \A k \in reached : j <= k
              i0 == NonSpaceRunStart(s, j0 - 1)
              same == {j \in reached : NonSpaceRunStart(s, j - 1) = i0}
          IN CHOOSE j \in same : \A k \in same : k <= j

\* the indices where \.ts occurs
TsIndices(s) ==
  {j \in 1..(Len(s) - 2) : CharAt(s, j) = "." /\ SubSeq(s, j, j + 2) = ".ts"}

\* /(\S+\.tsx?)\((\d+),\d+\)/g and /(\S+\.tsx?):(\d+):\d+/g, first match;
\* TailAt(j) is  \.tsx? open (\d+) mid \d+ close  at index j, with the text
\* of (\d+)
NumberedFileMatch(s, open, mid, close) ==
  LET TailAt(j) ==
        LET e == TsExtensionEnd(s, j)
            d1 == e + Len(open)
            d1e == DigitRunEnd(s, d1)
            d2 == d1e + Len(mid)
            d2e == DigitRunEnd(s, d2)
        IN IF /\ e > 0
              /\ StartsAt(s, e, open)
              /\ d1 <= Len(s)
              /\ d1e > d1
              /\ StartsAt(s, d1e, mid)
              /\ d2 <= Len(s)
              /\ d2e > d2
              /\ (close = "" \/ StartsAt(s, d2e, close))
           THEN [ok |-> TRUE, line |-> SubSeq(s, d1, d1e - 1)]
           ELSE [ok |-> FALSE, line |-> ""]
      tails == {j \in TsIndices(s) : TailAt(j).ok}
      j0 == FirstFileWithTail(s, tails)
  IN IF j0 = 0 THEN NoMatch
     ELSE [found |-> TRUE,
           fileName |-> SubSeq(s, NonSpaceRunStart(s, j0 - 1), TsExtensionEnd(s, j0) - 1),
           lineNumber |-> parseInt(TailAt(j0).line)]

\* :(\d+):\d+ at index q, with the text of (\d+)
ColonTail(s, q) ==
  LET d1 == q + 1
      d1e == DigitRunEnd(s, d1)
      d2 == d1e + 1
      d2e == DigitRunEnd(s, d2)
  IN IF /\ StartsAt(s, q, ":")
        /\ d1 <= Len(s)
        /\ d1e > d1
        /\ StartsAt(s, d1e, ":")
        /\ d2 <= Len(s)
        /\ d2e > d2
     THEN [ok |-> TRUE, line |-> SubSeq(s, d1, d1e - 1)]
     ELSE [ok |-> FALSE, line |-> ""]

\* /at\s+(.+?):(\d+):\d+/g, first match.  From the 'at' at index a the
\* greedy \s+ takes the whole run of white space and the lazy group ends
\* before the first colon tail of the line; when that fails and the run is
\* followed by a colon tail, \s+ gives back its last character to the group
StackFrameMatch(s) ==
  LET At(a) ==
        LET w == SpaceRunEnd(s, a + 2)
            stops == {q \in (w + 1)..(LineEnd(s, w) - 1) : ColonTail(s, q).ok}
            q0 == CHOOSE q \in stops : \A k \in stops : q <= k
        IN IF ~StartsAt(s, a, "at") \/ w = a + 2 \/ w > Len(s) THEN NoMatch
           ELSE IF stops # {}
           THEN [found |-> TRUE, fileName |-> SubSeq(s, w, q0 - 1),
                 lineNumber |-> parseInt(ColonTail(s, q0).line)]
           ELSE IF /\ w - 1 >= a + 3
                   /\ ~IsLineTerminator(CharAt(s, w - 1))
                   /\ ColonTail(s, w).ok
           THEN [found |-> TRUE, fileName |-> CharAt(s, w - 1),
                 lineNumber |-> parseInt(ColonTail(s, w).line)]
           ELSE NoMatch
      starts == {a \in 1..(Len(s) - 2) : SubSeq(s, a, a + 1) = "at" /\ At(a).found}
  IN IF starts = {} THEN NoMatch
     ELSE At(CHOOSE a \in starts : \A k \in starts : a <= k)

\* /Error in (.+\.tsx?)/g, first match: the greedy group ends with the last
\* \.tsx? of the line
ErrorInMatch(s) ==
  LET At(a) ==
        LET g == a + Len("Error in ")
            ends == {j \in (g + 1)..(LineEnd(s, g) - 1) : TsExtensionEnd(s, j) > 0}
            last == CHOOSE j \in ends : \A k \in ends : k <= j
        IN IF ~StartsAt(s, a, "Error in ") \/ g > Len(s) \/ ends = {} THEN NoMatch
           ELSE [found |-> TRUE, fileName |-> SubSeq(s, g, TsExtensionEnd(s, last) - 1),
                 lineNumber |-> Null]
      starts == {a \in 1..(Len(s) - 8) : SubSeq(s, a, a + 8) = "Error in " /\ At(a).found}
  IN IF starts = {} THEN NoMatch
     ELSE At(CHOOSE a \in starts : \A k \in starts : a <= k)

\* /(\S+\.tsx?):\s*(.+)/g, first match.  TailAt(j) is  \.tsx?:\s*(.+)  at
\* index j, with the text of (.+): the greedy \s* takes the whole run of
\* white space and (.+) the rest of the line; when the run reaches the end
\* of the text, \s* gives back characters until (.+) starts with one that
\* is not a line terminator
GeneralFileMatch(s) ==
  LET TailAt(j) ==
        LET e == TsExtensionEnd(s, j)
            w == SpaceRunEnd(s, e + 1)
            given == {g \in (e + 1)..(w - 1) : ~IsLineTerminator(CharAt(s, g))}
            g0 == CHOOSE g \in given : \A k \in given : k <= g
        IN IF e = 0 \/ ~StartsAt(s, e, ":") THEN [ok |-> FALSE, text |-> ""]
           ELSE IF w <= Len(s)
           THEN [ok |-> TRUE, text |-> SubSeq(s, w, LineEnd(s, w) - 1)]
           ELSE IF given # {}
           THEN [ok |-> TRUE, text |-> SubSeq(s, g0, LineEnd(s, g0) - 1)]
           ELSE [ok |-> FALSE, text |-> ""]
      tails == {j \in TsIndices(s) : TailAt(j).ok}
      j0 == FirstFileWithTail(s, tails)
  IN IF j0 = 0 THEN NoMatch
     ELSE [found |-> TRUE,
           fileName |-> SubSeq(s, NonSpaceRunStart(s, j0 - 1), TsExtensionEnd(s, j0) - 1),
           lineNumber |-> parseInt(TailAt(j0).text)]

\* the loop over filePatterns: the first pattern that matches decides
FirstFileMatch(logContent) ==
  LET typescript == NumberedFileMatch(logContent, "(", ",", ")")
      withLine == NumberedFileMatch(logContent, ":", ":", "")
      stack == StackFrameMatch(logContent)
      errorIn == ErrorInMatch(logContent)
      general == GeneralFileMatch(logContent)
  IN IF typescript.found THEN typescript
     ELSE IF withLine.found THEN withLine
     ELSE IF stack.found THEN stack
     ELSE IF errorIn.found THEN errorIn
     ELSE general

\* the groups of the matches of /Erro \d+: (.+?)\n-{20}/g from index from
\* on, each search starting where the match before ended; At(p) is the index
\* after the match at index p and the text of its group, end 0 when the
\* expression does not match there
RECURSIVE FailedTestsFrom(_, _)
FailedTestsFrom(s, from) ==
  LET At(p) ==
        LET d == p + Len("Erro ")
            de == DigitRunEnd(s, d)
            g == de + 2
            nl == LineEnd(s, g)
        IN IF /\ StartsAt(s, p, "Erro ")
              /\ d <= Len(s)
              /\ de > d
              /\ StartsAt(s, de, ": ")
              /\ g <= Len(s)
              /\ nl > g
              /\ StartsAt(s, nl, "\n" \o Repeat("-", 20))
           THEN [end |-> nl + 21, name |-> SubSeq(s, g, nl - 1)]
           ELSE [end |-> 0, name |-> ""]
      starts == {p \in from..(Len(s) - 4) :
                   CharAt(s, p) = "E" /\ SubSeq(s, p, p + 4) = "Erro " /\ At(p).end > 0}
      p0 == CHOOSE p \in starts : \A k \in starts : p <= k
  IN IF starts = {} THEN <<>>
     ELSE <<At(p0).name>> \o FailedTestsFrom(s, At(p0).end)

\* errorDetails.failedTests, from logContent.split(heading)[1]: the text
\* between the first and the second occurrence of the heading
FailedTestsOf(logContent) ==
  LET sep == "(a) ERROS DETALHADOS"
      first == IndexOf(logContent, sep, 1)
      start == first + Len(sep)
      second == IndexOf(logContent, sep, start)
      section == SubSeq(logContent, start,
                        IF second = 0 THEN Len(logContent) ELSE second - 1)
  IN IF first = 0 THEN <<>> ELSE FailedTestsFrom(section, 1)

ErrorTypeOfFailedTestsOnly(failedTests, logContent) ==
  LET SomeIncludes(tests, word) == \E k \in 1..Len(tests) : Includes(tests[k], word)
  IN
  IF SomeIncludes(failedTests, "TypeScript") THEN "TYPESCRIPT_ERROR"
  ELSE IF SomeIncludes(failedTests, "ESLint") THEN "ESLINT_ERROR"
  ELSE IF SomeIncludes(failedTests, "Prisma") THEN "PRISMA_ERROR"
  ELSE IF SomeIncludes(failedTests, "Build") THEN "NEXTJS_ERROR"
  ELSE "UNKNOWN_ERROR"

ErrorTypeOfLintFirst(failedTests, logContent) ==
  LET SomeIncludes(tests, word) == \E k \in 1..Len(tests) : Includes(tests[k], word)
  IN
  IF \/ SomeIncludes(failedTests, "ESLint")
     \/ IncludesIgnoreCase(logContent, "eslint")
  THEN "ESLINT_ERROR"
  ELSE IF \/ SomeIncludes(failedTests, "TypeScript")
          \/ IncludesIgnoreCase(logContent, "typescript")
          \/ IncludesIgnoreCase(logContent, "tsc")
  THEN "TYPESCRIPT_ERROR"
  ELSE IF \/ SomeIncludes(failedTests, "Prisma")
          \/ IncludesIgnoreCase(logContent, "prisma")
          \/ IncludesIgnoreCase(logContent, "database")
  THEN "PRISMA_ERROR"
  ELSE IF \/ SomeIncludes(failedTests, "Build")
          \/ IncludesIgnoreCase(logContent, "next")
          \/ IncludesIgnoreCase(logContent, "webpack")
  THEN "NEXTJS_ERROR"
  ELSE IF \/ IncludesIgnoreCase(logContent, "module not found")
          \/ IncludesIgnoreCase(logContent, "cannot resolve")
  THEN "MODULE_ERROR"
  ELSE IF IncludesIgnoreCase(logContent, "syntax")
  THEN "SYNTAX_ERROR"
  ELSE "UNKNOWN_ERROR"

\* errorDetails.type
ErrorTypeOf(failedTests, logContent) ==
  LET SomeIncludes(tests, word) == \E k \in 1..Len(tests) : Includes(tests[k], word)
  IN
  IF \/ SomeIncludes(failedTests, "TypeScript")
     \/ IncludesIgnoreCase(logContent, "typescript")
     \/ IncludesIgnoreCase(logContent, "tsc")
  THEN "TYPESCRIPT_ERROR"
  ELSE IF \/ SomeIncludes(failedTests, "ESLint")
          \/ IncludesIgnoreCase(logContent, "eslint")
  THEN "ESLINT_ERROR"
  ELSE IF \/ SomeIncludes(failedTests, "Prisma")
          \/ IncludesIgnoreCase(logContent, "prisma")
          \/ IncludesIgnoreCase(logContent, "database")
  THEN "PRISMA_ERROR"
  ELSE IF \/ SomeIncludes(failedTests, "Build")
          \/ IncludesIgnoreCase(logContent, "next")
          \/ IncludesIgnoreCase(logContent, "webpack")
  THEN "NEXTJS_ERROR"
  ELSE IF \/ IncludesIgnoreCase(logContent, "module not found")
          \/ IncludesIgnoreCase(logContent, "cannot resolve")
  THEN "MODULE_ERROR"
  ELSE IF IncludesIgnoreCase(logContent, "syntax")
  THEN "SYNTAX_ERROR"
  ELSE "UNKNOWN_ERROR"

extractErrorDetails(logContent) ==
  LET failedTests == FailedTestsOf(logContent)
      file == FirstFileMatch(logContent)
  IN [type |-> ErrorTypeOf(failedTests, logContent),
      fileName |-> file.fileName,
      lineNumber |-> file.lineNumber,
      failedTests |-> failedTests]

(***************************************************************************)
(* DiagnosticEngine: generateSpecificCommandsFromFailedTests               *)
(***************************************************************************)
Contains(commands, command) == \E k \in 1..Len(commands) : commands[k] = command

\* commands.push(command) unless commands.includes(command)
PushNew(commands, command) ==
  IF Contains(commands, command) THEN commands ELSE Append(commands, command)

\* failedTests.forEach: ForTest is its body for one test
RECURSIVE CommandsForTests(_, _)
CommandsForTests(commands, tests) ==
  LET ForTest(test) ==
        LET c1 == IF Includes(test, "TypeScript")
                  THEN PushNew(commands, "npx tsc --noEmit") ELSE commands
            c2 == IF Includes(test, "ESLint")
                  THEN PushNew(c1, "npm run lint -- --fix") ELSE c1
            c3 == IF Includes(test, "Prisma") /\ ~Contains(c2, "npx prisma generate")
                  THEN c2 \o <<"npx prisma generate", "npx prisma migrate dev">>
                  ELSE c2
            c4 == IF Includes(test, "Build") THEN PushNew(c3, "rm -rf .next") ELSE c3
            c5 == IF Includes(test, "Dependencias") THEN PushNew(c4, "npm install") ELSE c4
        IN IF Includes(test, "Auditoria") THEN PushNew(c5, "npm audit fix") ELSE c5
  IN IF tests = <<>> THEN commands
     ELSE CommandsForTests(ForTest(Head(tests)), Tail(tests))

\* [...new Set(commands)]: the first occurrence of each element, in order
RECURSIVE Distinct(_)
Distinct(commands) ==
  IF commands = <<>> THEN <<>>
  ELSE LET front == Distinct(SubSeq(commands, 1, Len(commands) - 1))
       IN PushNew(front, commands[Len(commands)])

generateSpecificCommandsAlwaysPushing(failedTests, details, scanned) ==
  CommandsForTests(<<>>, failedTests)
    \o (IF details.type = "TYPESCRIPT_ERROR" THEN <<"npx tsc --noEmit">> ELSE <<>>)
    \o <<"npm run build:dev", "node analyze-logs.js">>
generateSpecificCommandsTypeFirst(failedTests, details, scanned) ==
  LET ForType(commands, type) ==
        IF type = "TYPESCRIPT_ERROR" THEN PushNew(commands, "npx tsc --noEmit")
        ELSE IF type = "PRISMA_ERROR" THEN PushNew(commands, "npx prisma generate")
        ELSE IF type = "MODULE_ERROR" THEN PushNew(commands, "npm install")
        ELSE IF type = "NEXTJS_ERROR" THEN PushNew(commands, "rm -rf .next")
        ELSE commands
  IN Distinct(CommandsForTests(ForType(<<>>, details.type), failedTests)
              \o <<"npm run build:dev", "node analyze-logs.js">>)

\* ForType is the switch on errorDetails.type
generateSpecificCommandsFromFailedTests(failedTests, details, scanned) ==
  LET ForType(commands, type) ==
        IF type = "TYPESCRIPT_ERROR" THEN PushNew(commands, "npx tsc --noEmit")
        ELSE IF type = "PRISMA_ERROR" THEN PushNew(commands, "npx prisma generate")
        ELSE IF type = "MODULE_ERROR" THEN PushNew(commands, "npm install")
        ELSE IF type = "NEXTJS_ERROR" THEN PushNew(commands, "rm -rf .next")
        ELSE commands
  IN Distinct(ForType(CommandsForTests(<<>>, failedTests), details.type)
              \o <<"npm run build:dev", "node analyze-logs.js">>)

(***************************************************************************)
(* DiagnosticEngine: analyzeSpecificFile and generateDetailedActionPlan    *)
(***************************************************************************)
\* what fs.existsSync answers false for
NoFile == [exists |-> FALSE, content |-> ""]

\* analyzeSpecificFile(filePath, lineNumber), file being what is at filePath.
\* Slice is Array.prototype.slice: a negative index counts from the end
analyzeSpecificFile(file, lineNumber) ==
  LET lines == Split(file.content, "\n")
      line == IF lineNumber.kind = "number" /\ lineNumber.value # 0
              THEN lineNumber.value ELSE 1
      startLine == IF line - 3 > 0 THEN line - 3 ELSE 0
      endLine == IF Len(lines) < line + 3 THEN Len(lines) ELSE line + 3
      Slice(array, start, end) ==
        LET to == IF end < 0
                  THEN (IF Len(array) + end > 0 THEN Len(array) + end ELSE 0)
                  ELSE end
        IN SubSeq(array, start + 1, to)
  IN IF ~file.exists
     THEN [exists |-> FALSE, errorContext |-> "", totalLines |-> 0]
     ELSE [exists |-> TRUE,
           errorContext |-> Join(Slice(lines, startLine, endLine), "\n"),
           totalLines |-> Len(lines)]

\* generateDetailedActionPlan(errorDetails, projectErrors): one push per if
generateDetailedActionPlan(details, scanned) ==
  LET tests == details.failedTests
      Has(name) == \E k \in 1..Len(tests) : tests[k] = name
      located == details.lineNumber.kind = "number" /\ details.lineNumber.value # 0
      lineText == ToString(details.lineNumber.value)
      Stage(present, title, description, stageCommands) ==
        IF present
        THEN <<[title |-> title, description |-> description, commands |-> stageCommands]>>
        ELSE <<>>
  IN Stage(Has("Verificacao TypeScript"), "Corrigir Erros de TypeScript",
           "Resolver problemas de tipagem e sintaxe do TypeScript.",
           <<"npx tsc --noEmit", "code . # Abrir editor para correcoes">>)
     \o Stage(Has("Verificacao ESLint"), "Corrigir Problemas de Lint",
              "Resolver problemas de qualidade e padroes de codigo.",
              <<"npm run lint -- --fix", "npm run lint # Verificar problemas restantes">>)
     \o Stage(\E k \in 1..Len(tests) : Includes(tests[k], "Prisma"),
              "Resolver Problemas do Prisma",
              "Corrigir configuracao do banco de dados e ORM.",
              <<"npx prisma generate", "npx prisma migrate dev", "npx prisma db push">>)
     \o Stage(Has("Build do Next.js"), "Corrigir Build do Next.js",
              "Resolver problemas de build e compilacao.",
              <<"rm -rf .next", "npm run build:dev">>)
     \o Stage(Has("Verificacao de Dependencias"), "Resolver Dependencias",
              "Corrigir problemas com pacotes e dependencias.",
              <<"npm install", "rm -rf node_modules package-lock.json && npm install">>)
     \o Stage(details.fileName # "", "Corrigir Arquivo Especifico",
              "Resolver problemas no arquivo " \o details.fileName
                \o (IF located THEN " na linha " \o lineText ELSE "") \o ".",
              <<"code " \o details.fileName
                  \o (IF located THEN ":" \o lineText ELSE "")>>)
     \o Stage(TRUE, "Verificacao Final",
              "Executar todos os testes novamente para confirmar as correcoes.",
              <<"node build-logger.js", "node analyze-logs.js">>)

(***************************************************************************)
(* RecurrenceDetector                                                      *)
(***************************************************************************)
EndsWith(s, suffix) ==
  Len(s) >= Len(suffix) /\ SubSeq(s, Len(s) - Len(suffix) + 1, Len(s)) = suffix

\* the files of a directory listing, newest modification first
RECURSIVE SortByMtimeDesc(_)
SortByMtimeDesc(files) ==
  IF files = {} THEN <<>>
  ELSE LET newest == CHOOSE f \in files : \A g \in files : g.mtime <= f.mtime
       IN <<newest>> \o SortByMtimeDesc(files \ {newest})

LogFilesNewestFirst(dir) ==
  SortByMtimeDesc({f \in dir.files : EndsWith(f.name, ".log")})

\* where a file system call of the detector throws: nowhere, in the listing
\* (readdirSync, or statSync while sorting), or in the n-th readFileSync
DetectorFaults == {"none", "list", "read1", "read2", "read3"}

ReadFaultIndex(fault) ==
  CASE fault = "read1" -> 1
    [] fault = "read2" -> 2
    [] fault = "read3" -> 3
    [] OTHER -> 0

\* logFiles.slice(0, 3)
RecentLogs(dir) ==
  LET logFiles == LogFilesNewestFirst(dir)
  IN SubSeq(logFiles, 1, IF Len(logFiles) < 3 THEN Len(logFiles) ELSE 3)
IsRecurrentInWhenFailedThere(testResults, logContent) ==
  /\ Includes(logContent, "(x) Status: ERRO")
  /\ \E i \in 1..Len(testResults) :
        /\ ~testResults[i].success /\ ~testResults[i].skipped
        /\ Includes(logContent, ": " \o testResults[i].description \o "\n" \o Repeat("-", 20))
        /\ Includes(logContent, "FALHOU")

\* the body of the loop: this log makes the detector return true
IsRecurrentIn(testResults, logContent) ==
  LET hasFailedTests == \E i \in 1..Len(testResults) :
                           ~testResults[i].success /\ ~testResults[i].skipped
  IN /\ hasFailedTests
     /\ Includes(logContent, "(x) Status: ERRO")
     /\ \E i \in 1..Len(testResults) :
           /\ ~testResults[i].success /\ ~testResults[i].skipped
           /\ Includes(logContent, testResults[i].description)
           /\ Includes(logContent, "FALHOU")

\* the call the fault names is one the detector makes: the listing, or the
\* read of a log that is reached because no newer log made it return
FaultPossible(dir, fault, testResults) ==
  fault # "none" =>
    /\ dir.exists
    /\ fault # "list" =>
         /\ ReadFaultIndex(fault) <= Len(RecentLogs(dir))
         /\ \A k \in 1..(ReadFaultIndex(fault) - 1) :
               ~IsRecurrentIn(testResults, RecentLogs(dir)[k].content)

checkIfErrorIsRecurrentNewestOnly(testResults, dir, fault) ==
  IF ~dir.exists \/ fault = "list" THEN FALSE
  ELSE LET recentLogs == RecentLogs(dir)
           thrower == ReadFaultIndex(fault)
       IN \E k \in 1..(IF Len(recentLogs) < 1 THEN Len(recentLogs) ELSE 1) :
             /\ thrower = 0 \/ k < thrower
             /\ IsRecurrentIn(testResults, recentLogs[k].content)

checkIfErrorIsRecurrentAllLogs(testResults, dir, fault) ==
  IF ~dir.exists \/ fault = "list" THEN FALSE
  ELSE LET logs == LogFilesNewestFirst(dir)
           thrower == ReadFaultIndex(fault)
       IN \E k \in 1..Len(logs) :
             /\ thrower = 0 \/ k < thrower
             /\ IsRecurrentIn(testResults, logs[k].content)

checkIfErrorIsRecurrentSkippedCounts(testResults, dir, fault) ==
  IF ~dir.exists \/ fault = "list" THEN FALSE
  ELSE LET recentLogs == RecentLogs(dir)
           thrower == ReadFaultIndex(fault)
       IN \E k \in 1..Len(recentLogs) :
             /\ thrower = 0 \/ k < thrower
             /\ Includes(recentLogs[k].content, "(x) Status: ERRO")
             /\ \E i \in 1..Len(testResults) :
                   /\ ~testResults[i].success
                   /\ Includes(recentLogs[k].content, testResults[i].description)
                   /\ Includes(recentLogs[k].content, "FALHOU")

checkIfErrorIsRecurrentSkipsUnreadable(testResults, dir, fault) ==
  IF ~dir.exists \/ fault = "list" THEN FALSE
  ELSE LET recentLogs == RecentLogs(dir)
           thrower == ReadFaultIndex(fault)
       IN \E k \in 1..Len(recentLogs) :
             /\ k # thrower
             /\ IsRecurrentIn(testResults, recentLogs[k].content)

\* the logs are read newest first until one makes the detector return true;
\* a call that throws before that is caught and false is returned
checkIfErrorIsRecurrent(testResults, dir, fault) ==
  IF ~dir.exists \/ fault = "list" THEN FALSE
  ELSE LET recentLogs == RecentLogs(dir)
           thrower == ReadFaultIndex(fault)
       IN \E k \in 1..Len(recentLogs) :
             /\ thrower = 0 \/ k < thrower
             /\ IsRecurrentIn(testResults, recentLogs[k].content)

(***************************************************************************)
(* CheckRunner: the battery of runAllTests, by the step numbers of the     *)
(* source's comments                                                       *)
(***************************************************************************)
CheckAt(step) ==
  CASE step = 1 -> [command |-> "npx tsc --noEmit", description |-> "Verificacao TypeScript"]
    [] step = 2 -> [command |-> "npx eslint . --max-warnings 0", description |-> "Verificacao ESLint"]
    [] step = 3 -> [command |-> "npx prisma generate", description |-> "Geracao do Cliente Prisma"]
    [] step = 4 -> [command |-> "npx prisma migrate status", description |-> "Status das Migracoes Prisma"]
    [] step = 5 -> [command |-> "npm run build:dev", description |-> "Build do Next.js"]
    [] step = 6 -> [command |-> "npm audit --audit-level high", description |-> "Auditoria de Seguranca"]
    [] step = 7 -> [command |-> "npm ls --depth=0", description |-> "Verificacao de Dependencias"]

LastStep == 7

StepIncludedWhenInstalled(step, prismaInstalled, prismaSchemaExists) ==
  step \in {3, 4} => prismaInstalled

\* steps 3 and 4 are guarded by the probe's two answers
StepIncluded(step, prismaInstalled, prismaSchemaExists) ==
  step \in {3, 4} => (prismaInstalled /\ prismaSchemaExists)

\* the step whose runCommand is reached after `step`, LastStep + 1 for the return
NextStep(step, prismaInstalled, prismaSchemaExists) ==
  IF \E n \in (step + 1)..LastStep : StepIncluded(n, prismaInstalled, prismaSchemaExists)
  THEN CHOOSE n \in (step + 1)..LastStep :
          /\ StepIncluded(n, prismaInstalled, prismaSchemaExists)
          /\ \A m \in (step + 1)..(n - 1) : ~StepIncluded(m, prismaInstalled, prismaSchemaExists)
  ELSE LastStep + 1

(***************************************************************************)
(* State                                                                   *)
(***************************************************************************)
VARIABLES
  \* project directory
  pkgPrisma,        \* package.json declares prisma or @prisma/client
  schemaExists,     \* prisma/schema.prisma exists
  logsDir,          \* [exists, files]: the logs directory and its files
  fsClock,          \* modification-time source of the file system
  minute,           \* the wall clock, in minutes since the first one
  \* child processes spawned so far, in spawn order
  children,
  abnormal,         \* children that did anything but exit 0 silently, and file
                    \* system calls that threw, so far
  \* Verification Stage process (main / runAllTests)
  pc,               \* "idle", "await", "main", "done"
  step,             \* step of runAllTests whose runCommand is awaited
  vPrismaInstalled, vPrismaSchemaExists,   \* locals of runAllTests
  rawTestResults,   \* testResults of runAllTests
  testResults,      \* testResults of main, after the filter
  isRecurrent,      \* isRecurrent of main
  vExit,            \* "none" while main has not ended, else "exit0" or "exit1"
  vWritten,         \* the files the last run of main wrote, with the minute
  vThrown,          \* messages of the exceptions main met in its last run
  vLedger,          \* for each run of main that ended: its minute, whether it wrote
  runs,             \* runs of the two stages started so far
  \* Diagnostic Stage process (analyzeLogs / scanProjectForErrors)
  dpc,              \* "idle", "awaitTs", "awaitLint", "done"
  dTrace,           \* states of the diagnostic state machine visited so far
  recentLog,        \* recentLog of analyzeLogs
  projectErrors,    \* projectErrors of scanProjectForErrors
  dExit,            \* "none" while analyzeLogs has not ended, else "exit0"
  dStarted,         \* commands the last run of analyzeLogs started
  \* inputs and outputs of the functions applied in SpecPure
  pStage, pIn, pOut, pAgain, pEnv, pReport, pHasError,
  pFault,           \* the fault the detector met (SpecHistory)
  \* inputs and outputs of the diagnostic functions applied in SpecDiagnose
  pDetails,         \* errorDetails of extractErrorDetails(pReport)
  pContext,         \* the file given to analyzeSpecificFile and what it returned
  pCommands,        \* commands of generateSpecificCommandsFromFailedTests
  pPlan             \* the stages of generateDetailedActionPlan

fsVars == <<pkgPrisma, schemaExists, logsDir, fsClock, minute>>
childVars == <<children, abnormal>>
verifyVars == <<pc, step, vPrismaInstalled, vPrismaSchemaExists, rawTestResults,
                testResults, isRecurrent, vExit, vWritten, vThrown, vLedger, runs>>
diagVars == <<dpc, dTrace, recentLog, projectErrors, dExit, dStarted>>
synthVars == <<pDetails, pContext, pCommands, pPlan>>
pureVars == <<pStage, pIn, pOut, pAgain, pEnv, pReport, pHasError, pFault, synthVars>>
vars == <<fsVars, childVars, verifyVars, diagVars, pureVars>>

(***************************************************************************)
(* Child processes and the promise each run* function returns              *)
(***************************************************************************)
TsDiagnosticLine == "src/app/page.tsx(10,5): error TS2304: Cannot find name 'Foo'."
OtherTsDiagnosticLine == "src/app/layout.tsx(3,1): error TS2304: Cannot find name 'Bar'."
NoiseOnlyLine == "build-logger.js:12: ReferenceError"
SpawnErrorMessage == "spawn /bin/sh ENOENT"
\* what the shell of spawn(..., {shell: true}) writes when the command it is
\* given names no executable, before it exits 127
CommandNotFoundLine == "/bin/sh: 1: npx: not found"
EslintCleanJson == "[]"
EslintOneMessageJson == "[{\"filePath\":\"src/app/page.tsx\",\"messages\":[{\"line\":1}]}]"

\* what a spawned command does: whether it starts, what it writes, how it
\* exits, and whether an 'error' event follows its 'close'
Plan(name, started, code, out, err, lateError) ==
  [name |-> name, started |-> started, code |-> code, out |-> out, err |-> err,
   lateError |-> lateError]

PlanOk == Plan("ok", TRUE, 0, "", "", FALSE)

CheckPlans ==
  { PlanOk,
    Plan("fail", TRUE, 1, "", TsDiagnosticLine \o "\n", FALSE),
    Plan("noise", TRUE, 1, "", NoiseOnlyLine \o "\n", FALSE),
    Plan("notfound", TRUE, 127, "", CommandNotFoundLine \o "\n", FALSE),
    Plan("spawnfail", FALSE, -2, "", "", FALSE),
    Plan("lateerror", TRUE, 2, "", "", TRUE) }

TsPlans ==
  { PlanOk,
    Plan("diagnostics", TRUE, 2, TsDiagnosticLine \o "\n", "", FALSE),
    Plan("spawnfail", FALSE, -2, "", "", FALSE) }

LintPlans ==
  { Plan("clean", TRUE, 0, EslintCleanJson, "", FALSE),
    Plan("messages", TRUE, 1, EslintOneMessageJson, "", FALSE),
    Plan("nojson", TRUE, 2, "", "Oops! Something went wrong!\n", FALSE),
    Plan("spawnfail", FALSE, -2, "", "", FALSE) }

\* spawn(command, args, {stdio: 'pipe', shell: true}) and the promise around it
Spawn(owner, check, plan) ==
  [ owner        |-> owner,
    check        |-> check,
    plan         |-> plan,
    alive        |-> plan.started,
    outPending   |-> plan.started /\ plan.out # "",
    errPending   |-> plan.started /\ plan.err # "",
    closePending |-> TRUE,
    errorPending |-> ~plan.started \/ plan.lateError,
    fired        |-> <<>>,
    stdout       |-> "",
    stderr       |-> "",
    settled      |-> FALSE,
    settles      |-> 0,
    value        |-> <<>> ]

\* a later call of resolve changes nothing
ResolveLastWins(child, v) ==
  [child EXCEPT !.settled = TRUE, !.settles = @ + 1, !.value = v]

\* resolve(v) of the promise of `child`
Resolve(child, v) ==
  IF child.settled THEN child
  ELSE [child EXCEPT !.settled = TRUE, !.settles = @ + 1, !.value = v]

AwaitNever(child) == TRUE

\* `await` resumes once the promise is settled
Settled(child) == child.settled

Awaited == children[Len(children)]

\* a continuation is ready to run: it runs before any further event is handled
ContinuationReady ==
  \/ pc = "main"
  \/ pc = "await" /\ Settled(Awaited)
  \/ dpc \in {"awaitTs", "awaitLint"} /\ Settled(Awaited)

IsAbnormal(plan) == plan # PlanOk

MaySpawn(plan) == IsAbnormal(plan) => abnormal < MaxAbnormal

RunningChildren == {i \in 1..Len(children) : children[i].alive}

\* parseTypeScriptErrors: one record per line in the compiler's diagnostic
\* format file(line,col): error|warning TSnnnn: message
parseTypeScriptErrors(output) ==
  LET lines == Split(output, "\n")
      IsTsDiagnostic(line) ==
        \/ Includes(line, "): error TS")
        \/ Includes(line, "): warning TS")
  IN [k \in 1..Len(SelectSeq(lines, IsTsDiagnostic)) |-> "TYPESCRIPT_ERROR"]

\* JSON.parse(output) followed by parseESLintErrors: one record per message;
\* text that is not JSON makes JSON.parse throw, and the handler resolves []
parseESLintOutput(output) ==
  IF output = EslintOneMessageJson THEN <<"ESLINT_ERROR">> ELSE <<>>

(***************************************************************************)
(* Event handlers of a child process                                       *)
(***************************************************************************)
\* stdout 'data': runCommand appends to stdout, runTypeScriptCheck and
\* runESLintCheck append to output (kept in the stdout field)
OnStdoutData(i) ==
  /\ ~ContinuationReady
  /\ children[i].outPending
  /\ children' = [children EXCEPT ![i].outPending = FALSE,
                                  ![i].stdout = @ \o children[i].plan.out]
  /\ UNCHANGED <<fsVars, abnormal, verifyVars, diagVars, pureVars>>

\* stderr 'data': runCommand appends to stderr, runTypeScriptCheck appends
\* to output, runESLintCheck has no listener
OnStderrData(i) ==
  /\ ~ContinuationReady
  /\ children[i].errPending
  /\ children' =
       [children EXCEPT
          ![i].errPending = FALSE,
          ![i].stderr = IF children[i].owner = "verify"
                        THEN @ \o children[i].plan.err ELSE @,
          ![i].stdout = IF children[i].owner = "tsc"
                        THEN @ \o children[i].plan.err ELSE @]
  /\ UNCHANGED <<fsVars, abnormal, verifyVars, diagVars, pureVars>>

CloseValue(child) ==
  CASE child.owner = "verify" ->
         CloseResult(child.check.command, child.check.description,
                     child.plan.code, child.stdout, child.stderr)
    [] child.owner = "tsc" -> parseTypeScriptErrors(child.stdout)
    [] child.owner = "eslint" -> parseESLintOutput(child.stdout)

ErrorValue(child) ==
  CASE child.owner = "verify" ->
         ErrorResult(child.check.command, child.check.description, SpawnErrorMessage)
    [] child.owner = "tsc" -> <<>>
    [] child.owner = "eslint" -> <<>>

\* 'close': emitted once the process has ended and its streams are closed;
\* after a failed spawn it follows 'error'
OnClose(i) ==
  /\ ~ContinuationReady
  /\ children[i].closePending
  /\ ~children[i].outPending /\ ~children[i].errPending
  /\ children[i].plan.started \/ ~children[i].errorPending
  /\ children' = [children EXCEPT
       ![i] = [Resolve(children[i], CloseValue(children[i])) EXCEPT
                 !.closePending = FALSE, !.alive = FALSE,
                 !.fired = Append(@, "close")]]
  /\ UNCHANGED <<fsVars, abnormal, verifyVars, diagVars, pureVars>>

\* 'error': the process could not be spawned, or a late error of a process
\* that already closed
OnError(i) ==
  /\ ~ContinuationReady
  /\ children[i].errorPending
  /\ children[i].plan.lateError => ~children[i].closePending
  /\ children' = [children EXCEPT
       ![i] = [Resolve(children[i], ErrorValue(children[i])) EXCEPT
                 !.errorPending = FALSE,
                 !.fired = Append(@, "error")]]
  /\ UNCHANGED <<fsVars, abnormal, verifyVars, diagVars, pureVars>>

(***************************************************************************)
(* Verification Stage: main and runAllTests                                *)
(***************************************************************************)
isPrismaInstalled == pkgPrisma
hasPrismaSchema == schemaExists


LogFileNameAtHour(m) == "log-2025-01-01-12.log"

\* the name createLogFileName returns in minute m
LogFileNameAt(m) ==
  LET \* String(now.getMinutes()).padStart(2, '0')
      minuteText == IF m < 10 THEN "0" \o ToString(m) ELSE ToString(m)
  IN "log-2025-01-01-12-" \o minuteText \o ".log"

\* createLogFileName in the current minute
createLogFileName == LogFileNameAt(minute)

\* fs.writeFileSync(path, content) in the logs directory
WriteFile(dir, name, content, mtime) ==
  [ exists |-> TRUE,
    files  |-> {f \in dir.files : f.name # name}
                 \cup {[name |-> name, content |-> content, mtime |-> mtime]} ]

\* how the file system answers one call of generateComprehensiveLog:
\* mkdirSync throws, or the directory is there and writeFileSync throws, or
\* both succeed
WriteOutcomes == {"ok", "mkdirThrows", "writeThrows"}

PossibleOutcome(dir, outcome, spent) ==
  /\ outcome = "mkdirThrows" => ~dir.exists
  /\ outcome # "ok" => spent < MaxAbnormal

\* error.message of the exception the outcome throws
ThrownMessage(outcome) ==
  IF outcome = "mkdirThrows"
  THEN "EACCES: permission denied, mkdir 'logs'"
  ELSE "ENOSPC: no space left on device, write"

\* the logs directory after generateComprehensiveLog met the outcome
SaveReport(dir, logContent, outcome) ==
  CASE outcome = "ok" -> WriteFile(dir, createLogFileName, logContent, fsClock + 1)
    [] outcome = "mkdirThrows" -> dir
    [] outcome = "writeThrows" -> [dir EXCEPT !.exists = TRUE]

\* errorResult of main's catch block
CriticalErrorResult(message) ==
  [ command     |-> "main",
    description |-> "Execucao do script",
    code        |-> 1,
    success     |-> FALSE,
    stdout      |-> "",
    stderr      |-> message,
    output      |-> message,
    timestamp   |-> IsoTimestamp,
    skipped     |-> FALSE,
    filtered    |-> FALSE ]

SpawnNext(owner, check, plan) ==
  /\ MaySpawn(plan)
  /\ children' = Append(children, Spawn(owner, check, plan))
  /\ abnormal' = IF IsAbnormal(plan) THEN abnormal + 1 ELSE abnormal

\* main up to the first await of runAllTests: the probe and the first check
VStart ==
  /\ pStage = "off"
  /\ pc = "idle"
  /\ dpc \in {"idle", "done"}
  /\ vPrismaInstalled' = isPrismaInstalled
  /\ vPrismaSchemaExists' = hasPrismaSchema
  /\ rawTestResults' = <<>>
  /\ step' = 1
  /\ \E plan \in CheckPlans : SpawnNext("verify", CheckAt(1), plan)
  /\ pc' = "await"
  /\ vExit' = "none"
  /\ vWritten' = <<>>
  /\ vThrown' = <<>>
  /\ runs' = runs + 1
  /\ UNCHANGED <<fsVars, testResults, isRecurrent, vLedger, diagVars, pureVars>>

\* runAllTests resumed by a settled runCommand: push, then the next check
\* or the return
VResume ==
  /\ pc = "await"
  /\ Settled(Awaited)
  /\ rawTestResults' = Append(rawTestResults, Awaited.value)
  /\ LET next == NextStep(step, vPrismaInstalled, vPrismaSchemaExists)
     IN /\ step' = next
        /\ IF next <= LastStep
           THEN /\ \E plan \in CheckPlans : SpawnNext("verify", CheckAt(next), plan)
                /\ pc' = "await"
           ELSE /\ UNCHANGED childVars
                /\ pc' = "main"
  /\ UNCHANGED <<fsVars, vPrismaInstalled, vPrismaSchemaExists, testResults,
                 isRecurrent, vExit, vWritten, vThrown, vLedger, runs, diagVars, pureVars>>

MainExitOnFailedCheck(thrown, results) ==
  IF thrown # <<>> \/ \E k \in 1..Len(results) : ~results[k].success
  THEN "exit1" ELSE "exit0"

\* the exit code of main: process.exit(1) in the catch block (or the rejected
\* promise) when an exception was thrown, the normal end of the script
\* otherwise, whatever the results of the checks
MainExit(thrown, results) ==
  IF thrown # <<>> THEN "exit1" ELSE "exit0"
MainAfterTestsDetectingFirst(raw, before) ==
  \E fault \in DetectorFaults :
  LET filtered == filterLogScriptErrors(raw)
      recurrent == checkIfErrorIsRecurrent(raw, logsDir, fault)
      logContent == generateComprehensiveLog(filtered, recurrent,
                                             isPrismaInstalled, hasPrismaSchema)
      spent == IF fault = "none" THEN before ELSE before + 1
  IN /\ spent <= MaxAbnormal
     /\ FaultPossible(logsDir, fault, raw)
     /\ testResults' = filtered
     /\ isRecurrent' = recurrent
     /\ \E first \in WriteOutcomes :
          /\ PossibleOutcome(logsDir, first, spent)
          /\ IF first = "ok"
             THEN /\ logsDir' = SaveReport(logsDir, logContent, first)
                  /\ fsClock' = fsClock + 1
                  /\ abnormal' = spent
                  /\ vWritten' = <<[name |-> createLogFileName, content |-> logContent,
                                     minute |-> minute]>>
                  /\ vLedger' = vLedger \cup {[minute |-> minute, wrote |-> TRUE]}
                  /\ vThrown' = <<>>
                  /\ vExit' = MainExit(<<>>, filtered)
             ELSE LET dir == SaveReport(logsDir, logContent, first)
                      errorResult == <<CriticalErrorResult(ThrownMessage(first))>>
                      errorLog == generateComprehensiveLog(errorResult, FALSE,
                                                           isPrismaInstalled, hasPrismaSchema)
                  IN \E second \in WriteOutcomes :
                       /\ PossibleOutcome(dir, second, spent + 1)
                       /\ logsDir' = SaveReport(dir, errorLog, second)
                       /\ fsClock' = IF second = "ok" THEN fsClock + 1 ELSE fsClock
                       /\ abnormal' = IF second = "ok" THEN spent + 1 ELSE spent + 2
                       /\ vWritten' = IF second = "ok"
                                      THEN <<[name |-> createLogFileName,
                                              content |-> errorLog, minute |-> minute]>>
                                      ELSE <<>>
                       /\ vLedger' = vLedger \cup {[minute |-> minute,
                                                     wrote |-> (second = "ok")]}
                       /\ vThrown' = IF second = "ok"
                                      THEN <<ThrownMessage(first)>>
                                      ELSE <<ThrownMessage(first), ThrownMessage(second)>>
                       /\ vExit' = MainExit(<<ThrownMessage(first)>>, filtered)

\* main once runAllTests has returned raw: filter, recurrence, report; an
\* exception of generateComprehensiveLog reaches the catch block, which
\* renders the one-entry report and calls process.exit(1); an exception of
\* that second call leaves main's promise rejected with no handler, which
\* ends the process with exit code 1
MainAfterTests(raw, before) ==
  \E fault \in DetectorFaults :
  LET filtered == filterLogScriptErrors(raw)
      recurrent == checkIfErrorIsRecurrent(filtered, logsDir, fault)
      logContent == generateComprehensiveLog(filtered, recurrent,
                                             isPrismaInstalled, hasPrismaSchema)
      spent == IF fault = "none" THEN before ELSE before + 1
  IN /\ spent <= MaxAbnormal
     /\ FaultPossible(logsDir, fault, filtered)
     /\ testResults' = filtered
     /\ isRecurrent' = recurrent
     /\ \E first \in WriteOutcomes :
          /\ PossibleOutcome(logsDir, first, spent)
          /\ IF first = "ok"
             THEN /\ logsDir' = SaveReport(logsDir, logContent, first)
                  /\ fsClock' = fsClock + 1
                  /\ abnormal' = spent
                  /\ vWritten' = <<[name |-> createLogFileName, content |-> logContent,
                                     minute |-> minute]>>
                  /\ vLedger' = vLedger \cup {[minute |-> minute, wrote |-> TRUE]}
                  /\ vThrown' = <<>>
                  /\ vExit' = MainExit(<<>>, filtered)
             ELSE LET dir == SaveReport(logsDir, logContent, first)
                      errorResult == <<CriticalErrorResult(ThrownMessage(first))>>
                      errorLog == generateComprehensiveLog(errorResult, FALSE,
                                                           isPrismaInstalled, hasPrismaSchema)
                  IN \E second \in WriteOutcomes :
                       /\ PossibleOutcome(dir, second, spent + 1)
                       /\ logsDir' = SaveReport(dir, errorLog, second)
                       /\ fsClock' = IF second = "ok" THEN fsClock + 1 ELSE fsClock
                       /\ abnormal' = IF second = "ok" THEN spent + 1 ELSE spent + 2
                       /\ vWritten' = IF second = "ok"
                                      THEN <<[name |-> createLogFileName,
                                              content |-> errorLog, minute |-> minute]>>
                                      ELSE <<>>
                       /\ vLedger' = vLedger \cup {[minute |-> minute,
                                                     wrote |-> (second = "ok")]}
                       /\ vThrown' = IF second = "ok"
                                      THEN <<ThrownMessage(first)>>
                                      ELSE <<ThrownMessage(first), ThrownMessage(second)>>
                       /\ vExit' = MainExit(<<ThrownMessage(first)>>, filtered)

\* main after runAllTests
VMain ==
  /\ pc = "main"
  /\ MainAfterTests(rawTestResults, abnormal)
  /\ pc' = "done"
  /\ UNCHANGED <<pkgPrisma, schemaExists, minute, children, step, vPrismaInstalled,
                 vPrismaSchemaExists, rawTestResults, runs, diagVars, pureVars>>

(***************************************************************************)
(* Diagnostic Stage: analyzeLogs and scanProjectForErrors                  *)
(***************************************************************************)
NoLog == [name |-> "", content |-> "", mtime |-> 0]

findMostRecentLogAnyFile(dir) ==
  IF ~dir.exists \/ dir.files = {} THEN NoLog
  ELSE SortByMtimeDesc(dir.files)[1]

findMostRecentLog(dir) ==
  IF ~dir.exists THEN NoLog
  ELSE LET logFiles == LogFilesNewestFirst(dir)
       IN IF Len(logFiles) > 0 THEN logFiles[1] ELSE NoLog

\* analyzeLogs, const errorDetails = extractErrorDetails(logContent): its
\* value from the EXTRACT step on
errorDetails == extractErrorDetails(recentLog.content)

\* generateIntelligentMarkdownReport, const commands: its value from the
\* SYNTHESIZE step on
commands ==
  LET details == errorDetails
  IN generateSpecificCommandsFromFailedTests(details.failedTests, details,
                                             projectErrors)
DocumentNameInPlace(logName) == logName

\* path.basename(name, '.log') + '.md'
DocumentName(logName) ==
  (IF EndsWith(logName, ".log") THEN SubSeq(logName, 1, Len(logName) - 4) ELSE logName)
  \o ".md"

DocumentText(log) ==
  "# (f) Analise Inteligente de Erro - Build Log\n\n"
  \o "Arquivo de Log: " \o log.name \o "\n"

\* heuristic scan of the source tree and of the schema file, whose contents
\* are not part of the state: any outcome the scans can produce
SourceScanOutcomes == {<<>>, <<"SYNTAX_ERROR">>}
PrismaScanOutcomes ==
  IF schemaExists THEN {<<>>, <<"PRISMA_CLIENT_ERROR">>} ELSE {<<>>}

\* analyzeLogs up to the first await of scanProjectForErrors
DStart ==
  /\ pStage = "off"
  /\ dpc = "idle"
  /\ pc \in {"idle", "done"}
  /\ LET found == findMostRecentLog(logsDir)
     IN IF found = NoLog
        THEN /\ dTrace' = <<"LOAD">>
             /\ dpc' = "done"
             /\ dExit' = "exit0"
             /\ dStarted' = <<>>
             /\ UNCHANGED <<recentLog, projectErrors, childVars>>
        ELSE /\ recentLog' = found
             /\ dTrace' = IF hasError(found.content)
                          THEN <<"LOAD", "CLASSIFY", "EXTRACT", "RESCAN">>
                          ELSE <<"LOAD", "CLASSIFY", "PREVENTIVE_SCAN">>
             /\ projectErrors' = <<>>
             /\ \E plan \in TsPlans :
                   SpawnNext("tsc", [command |-> "npx tsc --noEmit --pretty false",
                                     description |-> "runTypeScriptCheck"], plan)
             /\ dpc' = "awaitTs"
             /\ dExit' = "none"
             /\ dStarted' = <<"npx tsc --noEmit --pretty false">>
  /\ runs' = runs + 1
  /\ UNCHANGED <<fsVars, pc, step, vPrismaInstalled, vPrismaSchemaExists, rawTestResults,
                 testResults, isRecurrent, vExit, vWritten, vThrown, vLedger, pureVars>>

\* scanProjectForErrors resumed by runTypeScriptCheck: start runESLintCheck
DResumeTs ==
  /\ dpc = "awaitTs"
  /\ Settled(Awaited)
  /\ projectErrors' = projectErrors \o Awaited.value
  /\ \E plan \in LintPlans :
        SpawnNext("eslint", [command |-> "npx eslint . --format json",
                             description |-> "runESLintCheck"], plan)
  /\ dpc' = "awaitLint"
  /\ dStarted' = Append(dStarted, "npx eslint . --format json")
  /\ UNCHANGED <<fsVars, verifyVars, dTrace, recentLog, dExit, pureVars>>

\* scanProjectForErrors resumed by runESLintCheck: the file scans, then the
\* document (failing report) or the console summary (PREVENTIVE_SCAN)
DResumeLint ==
  /\ dpc = "awaitLint"
  /\ Settled(Awaited)
  /\ \E syntaxErrors \in SourceScanOutcomes, prismaErrors \in PrismaScanOutcomes :
        projectErrors' = projectErrors \o Awaited.value \o syntaxErrors \o prismaErrors
  /\ IF dTrace[Len(dTrace)] = "RESCAN"
     THEN /\ dTrace' = dTrace \o <<"ANALYZE_FILE", "SYNTHESIZE", "EMIT">>
          /\ logsDir' = WriteFile(logsDir, DocumentName(recentLog.name),
                                  DocumentText(recentLog), fsClock + 1)
          /\ fsClock' = fsClock + 1
     ELSE UNCHANGED <<dTrace, logsDir, fsClock>>
  /\ dpc' = "done"
  /\ dExit' = "exit0"
  /\ UNCHANGED <<pkgPrisma, schemaExists, minute, childVars, verifyVars,
                 recentLog, dStarted, pureVars>>

(***************************************************************************)
(* Specification of the two stages                                         *)
(***************************************************************************)
NoDir == [exists |-> FALSE, files |-> {}]

InitFiles ==
  /\ logsDir = NoDir
  /\ fsClock = 0
  /\ minute = 0

InitProcesses ==
  /\ children = <<>>
  /\ abnormal = 0
  /\ pc = "idle"
  /\ step = 0
  /\ vPrismaInstalled = FALSE
  /\ vPrismaSchemaExists = FALSE
  /\ rawTestResults = <<>>
  /\ testResults = <<>>
  /\ isRecurrent = FALSE
  /\ vExit = "none"
  /\ vWritten = <<>>
  /\ vThrown = <<>>
  /\ vLedger = {}
  /\ runs = 0
  /\ dpc = "idle"
  /\ dTrace = <<>>
  /\ recentLog = NoLog
  /\ projectErrors = <<>>
  /\ dExit = "none"
  /\ dStarted = <<>>
\* the locals of the diagnostic functions before they are called:
\* errorDetails as extractErrorDetails first builds it
InitSynth ==
  /\ pDetails = [type |-> "", fileName |-> "", lineNumber |-> Null, failedTests |-> <<>>]
  /\ pContext = [file |-> NoFile, analysis |-> analyzeSpecificFile(NoFile, Null)]
  /\ pCommands = <<>>
  /\ pPlan = <<>>

InitPureOff ==
  /\ pStage = "off"
  /\ pIn = <<>>
  /\ pOut = <<>>
  /\ pAgain = <<>>
  /\ pEnv = [prismaInstalled |-> FALSE, prismaSchemaExists |-> FALSE, isRecurrent |-> FALSE]
  /\ pReport = ""
  /\ pHasError = FALSE
  /\ pFault = "none"
  /\ InitSynth

Init ==
  /\ pkgPrisma \in BOOLEAN
  /\ schemaExists \in BOOLEAN
  /\ InitFiles
  /\ InitProcesses
  /\ InitPureOff

Next ==
  \/ VStart
  \/ VResume
  \/ VMain
  \/ DStart
  \/ DResumeTs
  \/ DResumeLint
  \/ \E i \in 1..Len(children) : OnStdoutData(i)
  \/ \E i \in 1..Len(children) : OnStderrData(i)
  \/ \E i \in 1..Len(children) : OnClose(i)
  \/ \E i \in 1..Len(children) : OnError(i)

Spec == Init /\ [][Next]_vars

(***************************************************************************)
(* Specification of sequences of runs: each run of a stage is one step,    *)
(* the wall clock moves between runs                                       *)
(***************************************************************************)
\* what runAllTests returns when the child of each step follows plans[step];
\* PlanResult is the result runCommand resolves with for one child
runAllTestsWith(plans, prismaInstalled, prismaSchemaExists) ==
  LET PlanResult(check, plan) ==
        IF plan.started
        THEN CloseResult(check.command, check.description, plan.code, plan.out, plan.err)
        ELSE ErrorResult(check.command, check.description, SpawnErrorMessage)
      steps == SelectSeq([n \in 1..LastStep |-> n],
                         LAMBDA n : StepIncluded(n, prismaInstalled, prismaSchemaExists))
  IN [i \in 1..Len(steps) |-> PlanResult(CheckAt(steps[i]), plans[steps[i]])]

AllOk == [n \in 1..LastStep |-> PlanOk]

\* every check passes, or the type check or the lint check fails
BatteryPlans ==
  {AllOk} \cup
  {[AllOk EXCEPT ![n] = Plan("fail", TRUE, 1, "", TsDiagnosticLine \o "\n", FALSE)] :
     n \in {1, 2}}

\* the batteries of a run: every check passes, or the type check reports one
\* diagnostic or two, or the lint check fails with lines of the log scripts only
RunPlans ==
  {AllOk,
   [AllOk EXCEPT ![1] = Plan("fail", TRUE, 1, "", TsDiagnosticLine \o "\n", FALSE)],
   [AllOk EXCEPT ![1] = Plan("failtwo", TRUE, 1, "",
                             OtherTsDiagnosticLine \o "\n" \o TsDiagnosticLine \o "\n",
                             FALSE)],
   [AllOk EXCEPT ![2] = Plan("noise", TRUE, 1, "", NoiseOnlyLine \o "\n", FALSE)]}

\* the clock reaches the next minute
Tick ==
  /\ pStage = "off"
  /\ minute < MaxMinute
  /\ minute' = minute + 1
  /\ UNCHANGED <<pkgPrisma, schemaExists, logsDir, fsClock, childVars, verifyVars,
                 diagVars, pureVars>>

\* one run of main from start to exit
MainRun ==
  /\ pStage = "off"
  /\ runs < MaxRuns
  /\ \E plans \in RunPlans :
        LET spent == IF plans = AllOk THEN abnormal ELSE abnormal + 1
            raw == runAllTestsWith(plans, isPrismaInstalled, hasPrismaSchema)
        IN /\ spent <= MaxAbnormal
           /\ rawTestResults' = raw
           /\ MainAfterTests(raw, spent)
  /\ vPrismaInstalled' = isPrismaInstalled
  /\ vPrismaSchemaExists' = hasPrismaSchema
  /\ step' = LastStep + 1
  /\ pc' = "done"
  /\ runs' = runs + 1
  /\ UNCHANGED <<pkgPrisma, schemaExists, minute, children, diagVars, pureVars>>

\* what scanProjectForErrors returns
ScanResults == {<<>>, <<"TYPESCRIPT_ERROR">>}

\* one run of analyzeLogs from start to exit
AnalyzeLogsRun ==
  /\ pStage = "off"
  /\ runs < MaxRuns
  /\ runs' = runs + 1
  /\ dpc' = "done"
  /\ dExit' = "exit0"
  /\ UNCHANGED <<pkgPrisma, schemaExists, minute, childVars, pc, step, vPrismaInstalled,
                 vPrismaSchemaExists, rawTestResults, testResults, isRecurrent, vExit,
                 vWritten, vThrown, vLedger, pureVars>>
  /\ LET found == findMostRecentLog(logsDir)
     IN IF found = NoLog
        THEN /\ dTrace' = <<"LOAD">>
             /\ dStarted' = <<>>
             /\ UNCHANGED <<recentLog, projectErrors, logsDir, fsClock>>
        ELSE /\ recentLog' = found
             /\ dStarted' = <<"npx tsc --noEmit --pretty false", "npx eslint . --format json">>
             /\ \E errors \in ScanResults : projectErrors' = errors
             /\ IF hasError(found.content)
                THEN /\ dTrace' = <<"LOAD", "CLASSIFY", "EXTRACT", "RESCAN",
                                    "ANALYZE_FILE", "SYNTHESIZE", "EMIT">>
                     /\ logsDir' = WriteFile(logsDir, DocumentName(found.name),
                                             DocumentText(found), fsClock + 1)
                     /\ fsClock' = fsClock + 1
                ELSE /\ dTrace' = <<"LOAD", "CLASSIFY", "PREVENTIVE_SCAN">>
                     /\ UNCHANGED <<logsDir, fsClock>>

InitRuns ==
  /\ pkgPrisma = FALSE
  /\ schemaExists = FALSE
  /\ InitFiles
  /\ InitProcesses
  /\ InitPureOff

NextRuns ==
  \/ Tick
  \/ MainRun
  \/ AnalyzeLogsRun

SpecRuns == InitRuns /\ [][NextRuns]_vars

(***************************************************************************)
(* Specification of the detector on the directories earlier runs leave     *)
(***************************************************************************)
\* the directory after a run of main in minute m whose children followed
\* plans and whose file system calls all succeeded
AfterRun(dir, plans, m) ==
  LET filtered == filterLogScriptErrors(runAllTestsWith(plans, FALSE, FALSE))
      recurrent == checkIfErrorIsRecurrent(filtered, dir, "none")
      logContent == generateComprehensiveLog(filtered, recurrent, FALSE, FALSE)
  IN WriteFile(dir, LogFileNameAt(m), logContent, m + 1)

\* the directories n runs in n successive minutes leave, each run ending
\* with the report of its battery or with the one-entry report of a failed write
RECURSIVE HistoriesOf(_)
HistoriesOf(n) ==
  IF n = 0 THEN {NoDir}
  ELSE LET earlier == HistoriesOf(n - 1)
           \* a run whose first writeFileSync threw leaves the one-entry
           \* report of main's catch block
           errorLog == generateComprehensiveLog(
                         <<CriticalErrorResult(ThrownMessage("writeThrows"))>>,
                         FALSE, FALSE, FALSE)
       IN {AfterRun(dir, plans, n - 1) : dir \in earlier, plans \in BatteryPlans}
          \cup {WriteFile(dir, LogFileNameAt(n - 1), errorLog, n) : dir \in earlier}

NewestLog(dir) == CHOOSE f \in dir.files : \A g \in dir.files : g.mtime <= f.mtime

\* the directories runs of main leave, and those after a run of analyzeLogs
\* wrote the document of the newest log
Histories ==
  LET logsOnly == UNION {HistoriesOf(n) : n \in 0..MaxHistory}
      WithDocument(dir) ==
        WriteFile(dir, DocumentName(NewestLog(dir).name), DocumentText(NewestLog(dir)),
                  NewestLog(dir).mtime + 1)
  IN logsOnly \cup {WithDocument(dir) : dir \in {d \in logsOnly : d.files # {}}}

\* the filtered results of the current run: a battery of BatteryPlans, or one
\* whose type check could not be started
CurrentResults ==
  {filterLogScriptErrors(runAllTestsWith(plans, FALSE, FALSE)) :
     plans \in BatteryPlans \cup {[AllOk EXCEPT ![1] = Plan("spawnfail", FALSE, -2, "", "", FALSE)]}}

InitHistory ==
  /\ pkgPrisma = FALSE
  /\ schemaExists = FALSE
  /\ logsDir \in Histories
  /\ fsClock = Cardinality(logsDir.files)
  /\ minute = Cardinality({f \in logsDir.files : EndsWith(f.name, ".log")})
  /\ InitProcesses
  /\ pStage = "history"
  /\ pIn \in CurrentResults
  /\ pOut = <<>>
  /\ pAgain = <<>>
  /\ pEnv = [prismaInstalled |-> FALSE, prismaSchemaExists |-> FALSE, isRecurrent |-> FALSE]
  /\ pReport = ""
  /\ pHasError = FALSE
  /\ pFault = "none"
  /\ InitSynth

\* checkIfErrorIsRecurrent(pIn, logsDir)
PDetect ==
  /\ pStage = "history"
  /\ \E fault \in DetectorFaults :
        /\ FaultPossible(logsDir, fault, pIn)
        /\ isRecurrent' = checkIfErrorIsRecurrent(pIn, logsDir, fault)
        /\ pFault' = fault
  /\ pStage' = "detected"
  /\ UNCHANGED <<fsVars, childVars, pc, step, vPrismaInstalled, vPrismaSchemaExists,
                 rawTestResults, testResults, vExit, vWritten, vThrown, vLedger, runs, diagVars, synthVars,
                 pIn, pOut, pAgain, pEnv, pReport, pHasError>>

SpecHistory == InitHistory /\ [][PDetect]_vars

(***************************************************************************)
(* Specification of the functions on bounded inputs                        *)
(***************************************************************************)
GenuineErrorLine == "Error: Cannot find module 'next'"
SeamLine == "or see stderr"
LineSeqs(n) ==
  LET pureLines == {NoiseOnlyLine, GenuineErrorLine, SeamLine}
  IN UNION {[1..k -> pureLines] : k \in 0..n}

\* what one command wrote and how it ended: a command that could not be
\* started, one that exits 0 with its text on stdout, one that exits 1 with
\* its text on either stream
RawPool(budget) ==
  {[kind |-> "error", code |-> -1, out |-> <<>>, err |-> <<>>]}
  \cup {[kind |-> "close", code |-> 0, out |-> o, err |-> <<>>] : o \in LineSeqs(budget)}
  \cup {[kind |-> "close", code |-> 1, out |-> o, err |-> e] :
          o \in LineSeqs(budget), e \in LineSeqs(budget)}

RawLineCount(raw) == Len(raw.out) + Len(raw.err)

RECURSIVE RawLists(_, _)
RawLists(n, budget) ==
  IF n = 0 THEN {<<>>}
  ELSE {<<>>} \cup
       UNION { {<<raw>> \o rest : rest \in RawLists(n - 1, budget - RawLineCount(raw))} :
               raw \in {r \in RawPool(budget) : RawLineCount(r) <= budget} }

\* each line as the command writes it, newline-terminated
RawText(lines) == Concat([k \in 1..Len(lines) |-> lines[k] \o "\n"])

ResultOfRaw(raw, position) ==
  IF raw.kind = "close"
  THEN CloseResult(CheckAt(position).command, CheckAt(position).description,
                   raw.code, RawText(raw.out), RawText(raw.err))
  ELSE ErrorResult(CheckAt(position).command, CheckAt(position).description,
                   SpawnErrorMessage)

PureInputs ==
  {[i \in 1..Len(raws) |-> ResultOfRaw(raws[i], i)] : raws \in RawLists(MaxResults, MaxLines)}

InitPure ==
  /\ pkgPrisma = FALSE
  /\ schemaExists = FALSE
  /\ InitFiles
  /\ InitProcesses
  /\ pStage = "input"
  /\ pIn \in PureInputs
  /\ pOut = <<>>
  /\ pAgain = <<>>
  /\ pEnv = [prismaInstalled |-> FALSE, prismaSchemaExists |-> FALSE, isRecurrent |-> FALSE]
  /\ pReport = ""
  /\ pHasError = FALSE
  /\ pFault = "none"
  /\ InitSynth

\* filterLogScriptErrors(pIn); the input array is left as it was
PFilter ==
  /\ pStage = "input"
  /\ pOut' = filterLogScriptErrors(pIn)
  /\ pStage' = "filtered"
  /\ UNCHANGED <<fsVars, childVars, verifyVars, diagVars, synthVars, pIn, pAgain, pEnv, pReport, pHasError,
                 pFault>>

\* filterLogScriptErrors applied to its own result
PFilterAgain ==
  /\ pStage = "filtered"
  /\ pAgain' = filterLogScriptErrors(pOut)
  /\ pStage' = "refiltered"
  /\ UNCHANGED <<fsVars, childVars, verifyVars, diagVars, synthVars, pIn, pOut, pEnv, pReport, pHasError,
                 pFault>>

\* the probe's answers and the detector's answer the report is rendered with
PureEnvs ==
  { [prismaInstalled |-> FALSE, prismaSchemaExists |-> FALSE, isRecurrent |-> FALSE],
    [prismaInstalled |-> TRUE, prismaSchemaExists |-> TRUE, isRecurrent |-> TRUE] }

\* generateComprehensiveLog(pOut, isRecurrent)
PRender ==
  /\ pStage = "refiltered"
  /\ \E env \in PureEnvs :
        /\ pEnv' = env
        /\ pReport' = generateComprehensiveLog(pOut, env.isRecurrent,
                                               env.prismaInstalled, env.prismaSchemaExists)
  /\ pStage' = "rendered"
  /\ UNCHANGED <<fsVars, childVars, verifyVars, diagVars, synthVars, pIn, pOut, pAgain, pHasError,
                 pFault>>

\* hasError(pReport)
PClassify ==
  /\ pStage = "rendered"
  /\ pHasError' = hasError(pReport)
  /\ pStage' = "classified"
  /\ UNCHANGED <<fsVars, childVars, verifyVars, diagVars, synthVars, pIn, pOut, pAgain, pEnv, pReport,
                 pFault>>

NextPure ==
  \/ PFilter
  \/ PFilterAgain
  \/ PRender
  \/ PClassify

SpecPure == InitPure /\ [][NextPure]_vars

(***************************************************************************)
(* Specification of the diagnostic functions on bounded report texts       *)
(***************************************************************************)
\* the report texts given to extractErrorDetails, each with the results it
\* was rendered from (none for a text that build-logger.js did not write):
\*  - texts of keyword lines followed by a detailed-errors section that
\*    names some checks, or of one compiler diagnostic at a line;
\*  - the reports of batteries in which the type check, the lint check and
\*    the build each end in one of seven ways;
\*  - the one-entry reports of main's catch block
DiagnoseInputs ==
  LET names == <<"Verificacao TypeScript", "Verificacao ESLint",
                 "Geracao do Cliente Prisma", "Build do Next.js",
                 "Auditoria de Seguranca", "Verificacao de Dependencias">>
      keywordLines == <<"TSC finished", "eslint found problems", "DATABASE unreachable",
                        "webpack compiled with errors", "Module not found",
                        "Syntax problem", TsDiagnosticLine>>
      orders == {s \in UNION {[1..k -> 1..Len(names)] : k \in 0..MaxResults} :
                   \A i, j \in 1..Len(s) : s[i] = s[j] => i = j}
      chosen == {K \in SUBSET (1..Len(keywordLines)) : Cardinality(K) <= MaxLines}
      Failing(s) == [i \in 1..Len(s) |-> CloseResult("sh", names[s[i]], 1, "", "")]
      KeywordText(K) ==
        Concat([i \in 1..Len(keywordLines) |->
                  IF i \in K THEN keywordLines[i] \o "\n" ELSE ""])
      ways == { PlanOk,
                Plan("fail", TRUE, 1, "", TsDiagnosticLine \o "\n", FALSE),
                Plan("noise", TRUE, 1, "", NoiseOnlyLine \o "\n", FALSE),
                Plan("mixed", TRUE, 1, "",
                     NoiseOnlyLine \o "\n" \o GenuineErrorLine \o "\n", FALSE),
                Plan("spawnfail", FALSE, -2, "", "", FALSE),
                Plan("quoted", TRUE, 1, "",
                     "Erro 9: teste\n" \o Repeat("-", 20) \o "\n", FALSE),
                Plan("header", TRUE, 1, "", "(a) ERROS DETALHADOS\n", FALSE) }
      batteries == {[AllOk EXCEPT ![1] = a, ![2] = b, ![5] = c] : a, b, c \in ways}
      Rendered(results, env) ==
        [results |-> results, env |-> env,
         text |-> generateComprehensiveLog(results, env.isRecurrent,
                                           env.prismaInstalled, env.prismaSchemaExists)]
  IN {[results |-> <<>>, env |-> CHOOSE env \in PureEnvs : ~env.isRecurrent,
       text |-> KeywordText(K) \o RenderDetailedErrors(Failing(s))] :
        s \in orders, K \in chosen}
     \cup {[results |-> <<>>, env |-> CHOOSE env \in PureEnvs : ~env.isRecurrent,
            text |-> "src/lib/db.ts(" \o ToString(n) \o ",1): error TS1005: ';' expected.\n"] :
             n \in 0..MaxLineNumber}
     \cup {Rendered(filterLogScriptErrors(
                      runAllTestsWith(plans, env.prismaInstalled, env.prismaSchemaExists)),
                    env) : plans \in batteries, env \in PureEnvs}
     \cup {Rendered(<<CriticalErrorResult(ThrownMessage(outcome))>>,
                    [env EXCEPT !.isRecurrent = FALSE]) :
             outcome \in WriteOutcomes \ {"ok"}, env \in PureEnvs}

InitDiagnose ==
  /\ pkgPrisma = FALSE
  /\ schemaExists = FALSE
  /\ InitFiles
  /\ InitProcesses
  /\ pStage = "text"
  /\ \E input \in DiagnoseInputs :
        /\ pOut = input.results
        /\ pEnv = input.env
        /\ pReport = input.text
  /\ pIn = <<>>
  /\ pAgain = <<>>
  /\ pHasError = FALSE
  /\ pFault = "none"
  /\ InitSynth

\* extractErrorDetails(pReport)
PExtract ==
  /\ pStage = "text"
  /\ pDetails' = extractErrorDetails(pReport)
  /\ pStage' = "extracted"
  /\ UNCHANGED <<fsVars, childVars, verifyVars, diagVars, pIn, pOut, pAgain, pEnv, pReport,
                 pHasError, pFault, pContext, pCommands, pPlan>>

\* analyzeSpecificFile(errorDetails.fileName, errorDetails.lineNumber), called
\* when errorDetails.fileName is set; the file at that path is missing or has
\* some number of lines
PAnalyzeFile ==
  /\ pStage = "extracted"
  /\ pDetails.fileName # ""
  /\ \E file \in {NoFile}
                 \cup {[exists |-> TRUE,
                        content |-> Join([k \in 1..n |-> "line " \o ToString(k)], "\n")] :
                         n \in 1..MaxFileLines} :
        pContext' = [file |-> file,
                     analysis |-> analyzeSpecificFile(file, pDetails.lineNumber)]
  /\ pStage' = "analyzed"
  /\ UNCHANGED <<fsVars, childVars, verifyVars, diagVars, pIn, pOut, pAgain, pEnv, pReport,
                 pHasError, pFault, pDetails, pCommands, pPlan>>

\* generateSpecificCommandsFromFailedTests and generateDetailedActionPlan, as
\* generateIntelligentMarkdownReport calls them
PSynthesize ==
  /\ pStage \in {"extracted", "analyzed"}
  /\ \E scanned \in ScanResults :
        /\ pCommands' = generateSpecificCommandsFromFailedTests(pDetails.failedTests,
                                                                pDetails, scanned)
        /\ pPlan' = generateDetailedActionPlan(pDetails, scanned)
  /\ pStage' = "synthesized"
  /\ UNCHANGED <<fsVars, childVars, verifyVars, diagVars, pIn, pOut, pAgain, pEnv, pReport,
                 pHasError, pFault, pDetails, pContext>>

NextDiagnose ==
  \/ PExtract
  \/ PAnalyzeFile
  \/ PSynthesize

SpecDiagnose == InitDiagnose /\ [][NextDiagnose]_vars

(***************************************************************************)
(* Properties                                                              *)
(***************************************************************************)
\* the battery's descriptions, with and without the two ORM checks
FullBattery ==
  <<"Verificacao TypeScript", "Verificacao ESLint", "Geracao do Cliente Prisma",
    "Status das Migracoes Prisma", "Build do Next.js", "Auditoria de Seguranca",
    "Verificacao de Dependencias">>

ShortBattery ==
  <<"Verificacao TypeScript", "Verificacao ESLint", "Build do Next.js",
    "Auditoria de Seguranca", "Verificacao de Dependencias">>

\* every element has success or skipped
AllPassOrSkipped(results) ==
  \A i \in 1..Len(results) : results[i].success \/ results[i].skipped

\* the line names one of the three allowlisted files
NamesAllowlisted(text) ==
  \/ Includes(text, "build-logger.js")
  \/ Includes(text, "analyze-logs.js")
  \/ Includes(text, "setup-ignore-scripts.js")

MentionsAllowlisted(result) ==
  NamesAllowlisted(result.output) \/ NamesAllowlisted(result.stdout)
    \/ NamesAllowlisted(result.stderr)

\* the lines of the text that name no allowlisted file
KeptLines(text) == SelectSeq(Split(text, "\n"), LAMBDA line : ~NamesAllowlisted(line))

\* an error indicator of the filter, in any letter case
HoldsIndicator(line) ==
  \E ind \in {"error", "Error:", "TypeError:", "SyntaxError:", "ReferenceError:",
              "warning", "Warning:", "fail", "failed", "FAIL", "FAILED"} :
     IncludesIgnoreCase(line, ind)

NoIndicatorKept(text) ==
  \A k \in 1..Len(KeptLines(text)) : ~HoldsIndicator(KeptLines(text)[k])

\* C1: the rendered report carries the success status line, and not the
\* error status line, exactly when every result given to the generator has
\* success or skipped; otherwise it carries the error line and not the
\* success line.
C1_StatusIffAllPassOrSkipped ==
  pStage = "rendered" =>
    /\ Includes(pReport, "(v) Status: SUCESSO") <=> AllPassOrSkipped(pOut)
    /\ Includes(pReport, "(x) Status: ERRO") <=> ~AllPassOrSkipped(pOut)

C1_Witness ==
  /\ pStage = "rendered"
  /\ Len(pOut) = 2
  /\ pOut[1].skipped
  /\ pOut[2].success
  /\ Includes(pReport, "(v) Status: SUCESSO")

\* C2: hasError of a rendered report is true exactly when the originating
\* result set is not an overall success.
C2_RoundTrip ==
  pStage = "classified" => (pHasError <=> ~AllPassOrSkipped(pOut))

\* C3: when the newest report, written by the Verification Stage, shows no
\* failure, the diagnosis visits LOAD, CLASSIFY, PREVENTIVE_SCAN and writes
\* no document.
C3_NoDocumentForPassingReport ==
  (pc = "done" /\ AllPassOrSkipped(testResults) /\ dpc \in {"awaitTs", "awaitLint", "done"}
     /\ recentLog # NoLog) =>
    /\ dTrace = <<"LOAD", "CLASSIFY", "PREVENTIVE_SCAN">>
    /\ \A f \in logsDir.files : ~EndsWith(f.name, ".md")

\* C4: a failed, non-skipped result whose text mentions an allowlisted file
\* and whose output, stdout and stderr hold no error indicator once the
\* lines naming an allowlisted file are removed, is promoted: success, exit
\* code 0, filtered, all three texts empty.
C4_Promotion ==
  pStage # "input" =>
    \A i \in 1..Len(pIn) :
      ( /\ ~pIn[i].success /\ ~pIn[i].skipped
        /\ MentionsAllowlisted(pIn[i])
        /\ NoIndicatorKept(pIn[i].output)
        /\ NoIndicatorKept(pIn[i].stdout)
        /\ NoIndicatorKept(pIn[i].stderr) ) =>
      ( /\ pOut[i].success /\ pOut[i].code = 0 /\ pOut[i].filtered
        /\ pOut[i].output = "" /\ pOut[i].stdout = "" /\ pOut[i].stderr = "" )

\* C5: a failed, non-skipped result whose output has a line naming an
\* allowlisted file and a line with "Error:" that names none stays failed,
\* is marked filtered, keeps every such genuine line in its output and
\* loses every line naming an allowlisted file.
C5_RealErrorsKept ==
  pStage # "input" =>
    \A i \in 1..Len(pIn) :
      LET lines == Split(pIn[i].output, "\n")
          genuine == {k \in 1..Len(lines) :
                        Includes(lines[k], "Error:") /\ ~NamesAllowlisted(lines[k])}
          kept == Split(pOut[i].output, "\n")
      IN ( /\ ~pIn[i].success /\ ~pIn[i].skipped
           /\ \E k \in 1..Len(lines) : NamesAllowlisted(lines[k])
           /\ genuine # {} ) =>
         ( /\ ~pOut[i].success
           /\ pOut[i].filtered
           /\ \A k \in genuine : \E j \in 1..Len(kept) : kept[j] = lines[k]
           /\ \A j \in 1..Len(kept) : ~NamesAllowlisted(kept[j]) )

C5_Witness ==
  /\ pStage = "filtered"
  /\ Len(pIn) >= 1
  /\ pIn[1].output = NoiseOnlyLine \o "\n" \o GenuineErrorLine
  /\ ~pIn[1].success
  /\ pOut[1].output = GenuineErrorLine

\* C6: filtering the filtered results again returns them field for field.
C6_Idempotent ==
  pStage \in {"refiltered", "rendered", "classified"} => pAgain = pOut

C6_Witness ==
  /\ pStage = "refiltered"
  /\ \E i \in 1..Len(pOut) :
        pOut[i].filtered /\ ~pOut[i].success /\ pOut[i].output # pIn[i].output

\* C7: the filter step leaves its input as it was, returns as many results
\* in the same order, and returns unchanged every result that is
\* successful, skipped, or failed without naming an allowlisted file.
C7_Frame ==
  [][ (pStage = "input" /\ pStage' = "filtered") =>
        /\ pIn' = pIn
        /\ Len(pOut') = Len(pIn)
        /\ \A i \in 1..Len(pIn) :
              /\ pOut'[i].description = pIn[i].description
              /\ (pIn[i].success \/ pIn[i].skipped \/ ~MentionsAllowlisted(pIn[i]))
                    => pOut'[i] = pIn[i] ]_vars

C7_Witness ==
  /\ pStage = "filtered"
  /\ Len(pIn) = 2
  /\ pIn[1].success /\ MentionsAllowlisted(pIn[1])
  /\ pIn[2].skipped
  /\ pOut = pIn

\* C8: runAllTests returns exactly the fixed battery in order, with the two
\* ORM checks exactly when the manifest declares the ORM and the schema
\* file exists, whatever the outcomes; while it runs, the results so far
\* are the battery's first entries.
C8_FixedBattery ==
  LET expected == IF pkgPrisma /\ schemaExists THEN FullBattery ELSE ShortBattery
  IN /\ pc \in {"main", "done"} => Descriptions(rawTestResults) = expected
     /\ pc = "done" => Descriptions(testResults) = expected
     /\ pc = "await" =>
          /\ Len(rawTestResults) < Len(expected)
          /\ Descriptions(rawTestResults) = SubSeq(expected, 1, Len(rawTestResults))
          /\ Awaited.check.description = expected[Len(rawTestResults) + 1]

C8_Witness ==
  /\ pc = "done"
  /\ Len(rawTestResults) = 7
  /\ ~rawTestResults[1].success /\ ~rawTestResults[1].skipped
  /\ rawTestResults[2].skipped
  /\ rawTestResults[7].success

\* C9: at most one external command started by the tool is running.
C9_OneCommandAtATime == Cardinality(RunningChildren) <= 1

C9_Witness ==
  /\ Len(children) >= 9
  /\ children[1].owner = "verify"
  /\ children[Len(children)].owner = "eslint"
  /\ children[Len(children)].alive

\* C10: the promise of runCommand settles at most once, is settled as soon
\* as 'close' or 'error' has fired, and its CheckResult is the one of the
\* first event: for 'close' the exit code with success iff it is 0, for
\* 'error' success false, exit code -1, skipped.
C10_SettlesOnceWithFirstEvent ==
  \A i \in 1..Len(children) :
    children[i].owner = "verify" =>
      /\ children[i].settles <= 1
      /\ children[i].settled <=> children[i].fired # <<>>
      /\ children[i].fired # <<>> =>
           /\ children[i].settles = 1
           /\ children[i].value.description = children[i].check.description
           /\ children[i].fired[1] = "close" =>
                /\ children[i].value.code = children[i].plan.code
                /\ children[i].value.success <=> children[i].plan.code = 0
                /\ ~children[i].value.skipped
           /\ children[i].fired[1] = "error" =>
                /\ children[i].value.code = -1
                /\ ~children[i].value.success
                /\ children[i].value.skipped

C10_Witness ==
  \E i, j \in 1..Len(children) :
    /\ children[i].owner = "verify" /\ children[i].fired = <<"error", "close">>
    /\ children[j].owner = "verify" /\ children[j].fired = <<"close", "error">>

\* the executable of the check is missing: the shell finds no such command,
\* or the shell itself cannot be started
ExecutableMissing(plan) == plan.name \in {"notfound", "spawnfail"}

\* C11: a check whose executable is missing gets a result with skipped and
\* without success, and a finished run in which every check either passed
\* or had its executable missing reports the success status.
C11_UnavailableToolSkipped ==
  /\ \A i \in 1..Len(children) :
        ( /\ children[i].owner = "verify"
          /\ ExecutableMissing(children[i].plan)
          /\ children[i].settled ) =>
        (children[i].value.skipped /\ ~children[i].value.success)
  /\ ( /\ pc = "done"
       /\ \A i \in 1..Len(children) :
             children[i].owner = "verify" =>
               (children[i].plan = PlanOk \/ ExecutableMissing(children[i].plan)) ) =>
     \A f \in logsDir.files :
        f.name = createLogFileName => Includes(f.content, "(v) Status: SUCESSO")

WellFormedResult(result) ==
  /\ result.skipped => ~result.success
  /\ result.filtered => ~result.skipped

\* C12: every result a command's promise settled with, every result
\* collected by runAllTests and every result returned by the filter has
\* skipped only without success, and filtered only without skipped.
C12_ResultInvariants ==
  /\ \A i \in 1..Len(children) :
        (children[i].owner = "verify" /\ children[i].settled) =>
          WellFormedResult(children[i].value)
  /\ \A i \in 1..Len(rawTestResults) : WellFormedResult(rawTestResults[i])
  /\ \A i \in 1..Len(testResults) : WellFormedResult(testResults[i])

C12_Witness ==
  /\ pc = "done"
  /\ \E i \in 1..Len(testResults) : testResults[i].skipped
  /\ \E i \in 1..Len(testResults) : testResults[i].filtered /\ testResults[i].success

HasRealFailure(results) ==
  \E i \in 1..Len(results) : ~results[i].success /\ ~results[i].skipped

LogFilesOf(dir) == {f \in dir.files : EndsWith(f.name, ".log")}

\* fewer than three '.log' files of the directory are newer than f
AmongThreeNewest(dir, f) ==
  /\ f \in LogFilesOf(dir)
  /\ Cardinality({g \in LogFilesOf(dir) : g.mtime > f.mtime}) < 3

\* the report has the error status, the description of a check that fails
\* now, and the word FALHOU
RepeatsFailure(results, f) ==
  /\ Includes(f.content, "(x) Status: ERRO")
  /\ Includes(f.content, "FALHOU")
  /\ \E i \in 1..Len(results) :
        /\ ~results[i].success /\ ~results[i].skipped
        /\ Includes(f.content, results[i].description)

\* C13 as stated: with a real failure now and a report among the three
\* newest that repeats it, the detector returns true.
C13_RecurrentWhenRepeated ==
  pStage = "detected" =>
    ( ( /\ HasRealFailure(pIn)
        /\ \E f \in logsDir.files : AmongThreeNewest(logsDir, f) /\ RepeatsFailure(pIn, f) )
      => isRecurrent )

\* C13 amended: the same, when no file system call of the detector threw.
C13_RecurrentWhenRepeatedAndRead ==
  (pStage = "detected" /\ pFault = "none") =>
    ( ( /\ HasRealFailure(pIn)
        /\ \E f \in logsDir.files : AmongThreeNewest(logsDir, f) /\ RepeatsFailure(pIn, f) )
      => isRecurrent )

C13_Witness ==
  /\ pStage = "detected"
  /\ pFault = "none"
  /\ isRecurrent
  /\ Cardinality(LogFilesOf(logsDir)) >= 3
  /\ ~RepeatsFailure(pIn, NewestLog([logsDir EXCEPT !.files = LogFilesOf(logsDir)]))

\* C14: the detector returns false when the directory does not exist, when
\* one of its file system calls threw, and when no result is a real failure.
C14_FalseWithoutHistoryOrFailure ==
  pStage = "detected" =>
    /\ ~logsDir.exists => ~isRecurrent
    /\ pFault # "none" => ~isRecurrent
    /\ ~HasRealFailure(pIn) => ~isRecurrent

C14_Witness ==
  /\ pStage = "detected"
  /\ pFault = "read2"
  /\ HasRealFailure(pIn)
  /\ \E f \in logsDir.files : AmongThreeNewest(logsDir, f) /\ RepeatsFailure(pIn, f)
  /\ ~isRecurrent

\* C15: the detector returns true only because of one of the three newest
\* '.log' files: a report with three newer ones never makes the run recurrent.
C15_OnlyThreeNewest ==
  pStage = "detected" =>
    ( isRecurrent =>
        \E f \in logsDir.files : AmongThreeNewest(logsDir, f) /\ RepeatsFailure(pIn, f) )

C15_Witness ==
  /\ pStage = "detected"
  /\ pFault = "none"
  /\ HasRealFailure(pIn)
  /\ \E f \in LogFilesOf(logsDir) : ~AmongThreeNewest(logsDir, f) /\ RepeatsFailure(pIn, f)
  /\ ~isRecurrent

\* the file the last run wrote is in the directory, named after its minute
LastReportInPlace ==
  \A k \in 1..Len(vWritten) :
    /\ vWritten[k].name = LogFileNameAt(vWritten[k].minute)
    /\ \E f \in logsDir.files :
          f.name = vWritten[k].name /\ f.content = vWritten[k].content

\* C16 as stated: every run of main that has ended wrote exactly one report,
\* named after the minute of writing and in the directory with the content
\* that run wrote, and there are as many '.log' files as distinct minutes in
\* which a run ended.
C16_OneReportPerRun ==
  /\ pc = "done" => (Len(vWritten) = 1 /\ LastReportInPlace)
  /\ Cardinality(LogFilesOf(logsDir)) = Cardinality({e.minute : e \in vLedger})

\* C16 amended: a run that ended wrote one report, or none when it ended
\* with exit code 1 because the write of the one-entry report threw too;
\* there are as many '.log' files as distinct minutes in which a run wrote.
C16_OneReportPerWritingRun ==
  /\ pc = "done" =>
       /\ Len(vWritten) <= 1
       /\ vExit = "exit0" => Len(vWritten) = 1
       /\ LastReportInPlace
  /\ Cardinality(LogFilesOf(logsDir))
       = Cardinality({e.minute : e \in {x \in vLedger : x.wrote}})

\* two runs wrote in the same minute: the second, a one-entry report after
\* an exception, replaced the file of the first
C16_Witness ==
  /\ fsClock = 2
  /\ Cardinality(logsDir.files) = 1
  /\ Cardinality(LogFilesOf(logsDir)) = 1
  /\ vLedger = {[minute |-> minute, wrote |-> TRUE]}
  /\ Len(vWritten) = 1
  /\ vExit = "exit1"

C18_LoadOrStop ==
  [][AnalyzeLogsRun =>
       IF ~logsDir.exists \/ LogFilesOf(logsDir) = {}
       THEN /\ dExit' = "exit0"
            /\ dTrace' = <<"LOAD">>
            /\ dStarted' = <<>>
            /\ logsDir' = logsDir
            /\ projectErrors' = projectErrors
       ELSE /\ recentLog' \in LogFilesOf(logsDir)
            /\ \A f \in LogFilesOf(logsDir) : f.mtime <= recentLog'.mtime
            /\ "CLASSIFY" \in {dTrace'[k] : k \in 1..Len(dTrace')}]_vars

\* analyzeLogs ran on a directory that a failed run of main created and left
\* empty
C18_Witness ==
  /\ logsDir.exists
  /\ logsDir.files = {}
  /\ dpc = "done"
  /\ dTrace = <<"LOAD">>
  /\ dExit = "exit0"
  /\ dStarted = <<>>

\* analyzeLogs extracted from the report that the last run of main rendered
\* from its battery, in which the type check exited with code 1
TypeCheckFailedAndDiagnosed ==
  /\ dpc = "done"
  /\ \E k \in 1..Len(dTrace) : dTrace[k] = "EXTRACT"
  /\ vExit = "exit0"
  /\ Len(vWritten) = 1
  /\ recentLog.content = vWritten[1].content
  /\ Len(testResults) >= 1
  /\ testResults[1].command = "npx tsc --noEmit"
  /\ testResults[1].code = 1

PageDiagnosticExtracted ==
  LET details == errorDetails
      list == generateSpecificCommandsFromFailedTests(details.failedTests, details,
                                                      projectErrors)
  IN /\ details.fileName = "src/app/page.tsx"
     /\ details.lineNumber = [kind |-> "number", value |-> 10]
     /\ details.type = "TYPESCRIPT_ERROR"
     /\ Cardinality({k \in 1..Len(list) : list[k] = "npx tsc --noEmit"}) = 1

\* C19 as stated: when the standard error of the failed type check contains
\* the diagnostic of src/app/page.tsx line 10, analyzeLogs extracts that file
\* name, line 10 and TYPESCRIPT_ERROR, and the commands hold
\* 'npx tsc --noEmit' exactly once.
C19_PageDiagnosticContained ==
  (TypeCheckFailedAndDiagnosed /\ Includes(testResults[1].stderr, TsDiagnosticLine))
    => PageDiagnosticExtracted

\* C19 amended: the same when the type check wrote nothing else, its
\* standard error being that diagnostic alone.
C19_PageDiagnosticAlone ==
  (/\ TypeCheckFailedAndDiagnosed
   /\ testResults[1].stdout = ""
   /\ testResults[1].stderr = TsDiagnosticLine)
    => PageDiagnosticExtracted

C19_Witness ==
  /\ TypeCheckFailedAndDiagnosed
  /\ testResults[1].stdout = ""
  /\ testResults[1].stderr = TsDiagnosticLine
  /\ commands = <<"npx tsc --noEmit", "npm run build:dev", "node analyze-logs.js">>

\* the entry of the per-check section for a filtered result at position i
FilteredEntry(result, i) ==
  ToString(i) \o ". " \o result.description \o "\n"
  \o "   Status: " \o StatusLabel(result) \o "\n"
  \o "   Comando: " \o result.command \o "\n"
  \o "   Codigo de saida: " \o ToString(result.code) \o "\n"
  \o "   Horario: " \o LocalTimestamp \o "\n"
  \o "   (i)  Output: [Filtrado - erros dos scripts de log removidos]\n"
  \o "\n"

\* the entry of the filtered-errors section for the k-th filtered failure
FilteredErrorEntry(result, k) ==
  "Filtrado " \o ToString(k) \o ": " \o result.description \o "\n"
  \o Repeat("-", 20) \o "\n"
  \o "Tipo: Erros dos scripts de log removidos\n"
  \o "Motivo: Continha referencias a build-logger.js, analyze-logs.js ou setup-ignore-scripts.js\n\n"

\* the lines with text that a result carries
TextLinesOf(result) ==
  LET all == Split(result.stdout, "\n") \o Split(result.stderr, "\n")
               \o Split(result.output, "\n")
  IN {all[k] : k \in 1..Len(all)} \ {""}

\* C20: for a filtered result the report has the placeholder entry in the
\* per-check section; the detailed-errors section names exactly the results
\* with not success, not skipped and not filtered, in order; a filtered
\* failure has its description and the fixed category text in the
\* filtered-errors section; and no line of the filtered result's text is in
\* the report, unless a result that is not filtered carries the same line.
C20_FilteredTextAbsent ==
  (pStage = "rendered" /\ \E i \in 1..Len(pOut) : pOut[i].filtered) =>
    /\ FailedTestsOf(pReport)
         = Descriptions(SelectSeq(pOut, LAMBDA r : ~r.success /\ ~r.skipped /\ ~r.filtered))
    /\ \A i \in 1..Len(pOut) :
         pOut[i].filtered =>
           /\ Includes(pReport, FilteredEntry(pOut[i], i))
           /\ ~pOut[i].success =>
                Includes(pReport,
                         FilteredErrorEntry(pOut[i],
                           Cardinality({j \in 1..i : ~pOut[j].success /\ pOut[j].filtered})))
           /\ \A line \in TextLinesOf(pOut[i]) :
                (\A j \in 1..Len(pOut) : ~pOut[j].filtered => line \notin TextLinesOf(pOut[j]))
                  => ~Includes(pReport, line)

\* a filtered failure that still carries a line of text, which the report
\* does not show
C20_Witness ==
  /\ pStage = "rendered"
  /\ \E i \in 1..Len(pOut) :
        /\ pOut[i].filtered
        /\ ~pOut[i].success
        /\ pOut[i].stderr = GenuineErrorLine
  /\ ~Includes(pReport, GenuineErrorLine)
  /\ Includes(pReport, "(f) ERROS FILTRADOS")

\* C21: in a run with no declared ORM dependency the battery acted on "not
\* installed", the sequence runAllTests returned holds neither ORM check,
\* and every report the run wrote says 'Prisma instalado: Nao'.
C21_UnavailableAgreesWithReport ==
  (pc = "done" /\ ~pkgPrisma) =>
    /\ ~vPrismaInstalled
    /\ \A k \in 1..Len(rawTestResults) :
         rawTestResults[k].command \notin {CheckAt(3).command, CheckAt(4).command}
    /\ \A k \in 1..Len(testResults) :
         testResults[k].description \notin {CheckAt(3).description, CheckAt(4).description}
    /\ \A k \in 1..Len(vWritten) :
         Includes(vWritten[k].content, "Prisma instalado: Nao\n")

\* a run without the dependency but with the schema file, whose report is
\* written
C21_Witness ==
  /\ pc = "done"
  /\ ~pkgPrisma
  /\ schemaExists
  /\ Len(rawTestResults) = 5
  /\ Len(vWritten) = 1
  /\ Includes(vWritten[1].content, "Prisma instalado: Nao\nSchema Prisma: Encontrado\n")
  /\ Includes(vWritten[1].content, "Testes ignorados: Prisma (nao instalado)")

\* the priority list of the classification: each type with the word a
\* failed-check description triggers it by and the keywords that trigger it
\* in the text
TypePriority ==
  << [type |-> "TYPESCRIPT_ERROR", word |-> "TypeScript", keywords |-> {"typescript", "tsc"}],
     [type |-> "ESLINT_ERROR", word |-> "ESLint", keywords |-> {"eslint"}],
     [type |-> "PRISMA_ERROR", word |-> "Prisma", keywords |-> {"prisma", "database"}],
     [type |-> "NEXTJS_ERROR", word |-> "Build", keywords |-> {"next", "webpack"}],
     [type |-> "MODULE_ERROR", word |-> "",
      keywords |-> {"module not found", "cannot resolve"}],
     [type |-> "SYNTAX_ERROR", word |-> "", keywords |-> {"syntax"}] >>

\* the trigger of the k-th type is present in the text given to the extraction
Triggered(k) ==
  \/ /\ TypePriority[k].word # ""
     /\ \E i \in 1..Len(pDetails.failedTests) :
          Includes(pDetails.failedTests[i], TypePriority[k].word)
  \/ \E keyword \in TypePriority[k].keywords : IncludesIgnoreCase(pReport, keyword)

\* C22: the type extractErrorDetails assigns is the type of the first entry
\* of the priority list whose trigger is present, UNKNOWN_ERROR when none is.
C22_FirstTriggeredType ==
  pStage = "extracted" =>
    \/ \E k \in 1..Len(TypePriority) :
         /\ Triggered(k)
         /\ \A j \in 1..(k - 1) : ~Triggered(j)
         /\ pDetails.type = TypePriority[k].type
    \/ /\ \A k \in 1..Len(TypePriority) : ~Triggered(k)
       /\ pDetails.type = "UNKNOWN_ERROR"

\* a text with the module-resolution and the syntax keyword and a failed
\* check that triggers nothing
C22_Witness ==
  /\ pStage = "extracted"
  /\ pDetails.failedTests = <<"Auditoria de Seguranca">>
  /\ IncludesIgnoreCase(pReport, "module not found")
  /\ IncludesIgnoreCase(pReport, "syntax")
  /\ pDetails.type = "MODULE_ERROR"

\* C23: for a located line L within a file of N lines, the error context is
\* the file's lines max(1, L-3) .. min(N, L+3).
C23_SymmetricWindow ==
  LET lines == Split(pContext.file.content, "\n")
      L == pDetails.lineNumber.value
      N == Len(lines)
      from == IF L - 3 > 1 THEN L - 3 ELSE 1
      to == IF L + 3 < N THEN L + 3 ELSE N
  IN (/\ pStage = "analyzed"
      /\ pContext.file.exists
      /\ pDetails.lineNumber.kind = "number"
      /\ 1 <= L /\ L <= N)
       => pContext.analysis.errorContext = Join(SubSeq(lines, from, to), "\n")

\* the commands a failed check's description asks for
CheckCommands(test) ==
  (IF Includes(test, "TypeScript") THEN {"npx tsc --noEmit"} ELSE {})
  \cup (IF Includes(test, "ESLint") THEN {"npm run lint -- --fix"} ELSE {})
  \cup (IF Includes(test, "Prisma")
        THEN {"npx prisma generate", "npx prisma migrate dev"} ELSE {})
  \cup (IF Includes(test, "Build") THEN {"rm -rf .next"} ELSE {})
  \cup (IF Includes(test, "Dependencias") THEN {"npm install"} ELSE {})
  \cup (IF Includes(test, "Auditoria") THEN {"npm audit fix"} ELSE {})

\* the command an error type asks for
TypeCommands(type) ==
  CASE type = "TYPESCRIPT_ERROR" -> {"npx tsc --noEmit"}
    [] type = "PRISMA_ERROR" -> {"npx prisma generate"}
    [] type = "MODULE_ERROR" -> {"npm install"}
    [] type = "NEXTJS_ERROR" -> {"rm -rf .next"}
    [] OTHER -> {}

\* C24: the command list has no duplicate; before its last two entries,
\* 'npm run build:dev' and 'node analyze-logs.js', it holds exactly the
\* commands of the failed checks and of the type, those of the failed checks
\* first and in the order of the checks that first ask for them.
C24_CommandList ==
  pStage = "synthesized" =>
    LET tests == pDetails.failedTests
        n == Len(pCommands)
        body == SubSeq(pCommands, 1, n - 2)
        fromChecks == UNION {CheckCommands(tests[k]) : k \in 1..Len(tests)}
        FirstAsking(c) == CHOOSE k \in 1..Len(tests) :
                            /\ c \in CheckCommands(tests[k])
                            /\ \A j \in 1..(k - 1) : c \notin CheckCommands(tests[j])
    IN /\ \A i, j \in 1..n : pCommands[i] = pCommands[j] => i = j
       /\ n >= 2
       /\ pCommands[n - 1] = "npm run build:dev"
       /\ pCommands[n] = "node analyze-logs.js"
       /\ {body[i] : i \in 1..Len(body)} = fromChecks \cup TypeCommands(pDetails.type)
       /\ \A i, j \in 1..Len(body) :
            i < j =>
              /\ body[j] \in fromChecks => body[i] \in fromChecks
              /\ (body[i] \in fromChecks /\ body[j] \in fromChecks)
                   => FirstAsking(body[i]) <= FirstAsking(body[j])

\* two failed checks, then a type whose command no failed check asked for
C24_Witness ==
  /\ pStage = "synthesized"
  /\ pDetails.failedTests = <<"Verificacao de Dependencias", "Verificacao ESLint">>
  /\ pDetails.type = "TYPESCRIPT_ERROR"
  /\ pCommands = <<"npm install", "npm run lint -- --fix", "npx tsc --noEmit",
                   "npm run build:dev", "node analyze-logs.js">>

\* the problem categories present among the failed checks and the located file
CategoriesPresent ==
  LET tests == pDetails.failedTests
      Failed(name) == \E k \in 1..Len(tests) : tests[k] = name
  IN {c \in {"type-check", "lint", "ORM", "build", "dependency-audit",
             "dependency-listing", "located file"} :
        \/ c = "type-check" /\ Failed("Verificacao TypeScript")
        \/ c = "lint" /\ Failed("Verificacao ESLint")
        \/ c = "ORM" /\ \E k \in 1..Len(tests) : Includes(tests[k], "Prisma")
        \/ c = "build" /\ Failed("Build do Next.js")
        \/ c = "dependency-audit" /\ Failed("Auditoria de Seguranca")
        \/ c = "dependency-listing" /\ Failed("Verificacao de Dependencias")
        \/ c = "located file" /\ pDetails.fileName # ""}

\* the titles of the stages in their priority order
StageOrder ==
  <<"Corrigir Erros de TypeScript", "Corrigir Problemas de Lint",
    "Resolver Problemas do Prisma", "Corrigir Build do Next.js",
    "Resolver Dependencias", "Corrigir Arquivo Especifico", "Verificacao Final">>

\* C25: the plan has one stage for each category present, then the final
\* re-verification stage; no stage appears twice and the stages follow one
\* fixed order whatever the order of the failures.
C25_StagePerCategory ==
  pStage = "synthesized" =>
    LET Rank(title) == CHOOSE r \in 1..Len(StageOrder) : StageOrder[r] = title
    IN /\ Len(pPlan) = Cardinality(CategoriesPresent) + 1
       /\ pPlan[Len(pPlan)].title = "Verificacao Final"
       /\ \A i, j \in 1..Len(pPlan) :
            i < j => Rank(pPlan[i].title) < Rank(pPlan[j].title)

\* the checks every run executes, whatever the ORM probe answers
AlwaysExecuted == {CheckAt(s).description : s \in {1, 2, 5, 6, 7}}

\* the report is one of the three newest and has the error status
ErrorReportAmongNewest(dir, f) ==
  AmongThreeNewest(dir, f) /\ Includes(f.content, "(x) Status: ERRO")

\* C26 as stated: the detector returns true exactly when there is a real
\* failure now and one of the three newest reports has the error status and
\* names a check that fails now; so every error report among the three
\* newest makes the run recurrent for every check that fails now and was
\* executed in the run of that report.
C26_DecidedPerReportText ==
  pStage = "detected" =>
    /\ isRecurrent <=>
          ( /\ HasRealFailure(pIn)
            /\ \E f \in logsDir.files :
                  AmongThreeNewest(logsDir, f) /\ RepeatsFailure(pIn, f) )
    /\ \A f \in logsDir.files :
         \A i \in 1..Len(pIn) :
           ( /\ ErrorReportAmongNewest(logsDir, f)
             /\ ~pIn[i].success /\ ~pIn[i].skipped
             /\ pIn[i].description \in AlwaysExecuted )
           => isRecurrent

\* C26 amended: true only when that holds, and true whenever it holds and
\* no file system call of the detector threw; then every error report
\* among the three newest that was rendered from the battery of its run,
\* not the one-entry report of main's catch block, makes the run recurrent.
C26_DecidedPerReportTextWhenRead ==
  pStage = "detected" =>
    LET repeated == /\ HasRealFailure(pIn)
                    /\ \E f \in logsDir.files :
                          AmongThreeNewest(logsDir, f) /\ RepeatsFailure(pIn, f)
        failsNow == \E i \in 1..Len(pIn) :
                      /\ ~pIn[i].success /\ ~pIn[i].skipped
                      /\ pIn[i].description \in AlwaysExecuted
    IN IF isRecurrent THEN repeated
       ELSE pFault = "none" =>
              /\ ~repeated
              /\ failsNow =>
                   \A f \in logsDir.files :
                     ErrorReportAmongNewest(logsDir, f) =>
                       Includes(f.content, "Execucao do script")

\* the lint check fails now and failed in none of the three newest reports
C26_Witness ==
  /\ pStage = "detected"
  /\ pFault = "none"
  /\ isRecurrent
  /\ \E i \in 1..Len(pIn) : ~pIn[i].success /\ pIn[i].description = "Verificacao ESLint"
  /\ \A i \in 1..Len(pIn) : ~pIn[i].success => pIn[i].description = "Verificacao ESLint"
  /\ \A f \in logsDir.files :
        AmongThreeNewest(logsDir, f) =>
          ~Includes(f.content, ": Verificacao ESLint\n" \o Repeat("-", 20))

\* the text is the report of a battery runAllTests returned
ReportOfBattery ==
  /\ Len(pOut) >= 1
  /\ pOut[1].command = CheckAt(1).command
  /\ pReport = generateComprehensiveLog(pOut, pEnv.isRecurrent, pEnv.prismaInstalled,
                                        pEnv.prismaSchemaExists)

\* the text is the one-entry report of main's catch block
ReportOfCatchBlock ==
  /\ Len(pOut) = 1
  /\ pOut[1].command = "main"
  /\ pReport = generateComprehensiveLog(pOut, FALSE, pEnv.prismaInstalled,
                                        pEnv.prismaSchemaExists)

\* C27: the type read from the report of a battery is TYPESCRIPT_ERROR
\* whatever failed, and the type read from the one-entry report of main's
\* catch block is none of NEXTJS_ERROR, MODULE_ERROR, SYNTAX_ERROR and
\* UNKNOWN_ERROR.
C27_TypeOfWrittenReports ==
  pStage = "extracted" =>
    /\ ReportOfBattery => pDetails.type = "TYPESCRIPT_ERROR"
    /\ ReportOfCatchBlock =>
         pDetails.type \notin {"NEXTJS_ERROR", "MODULE_ERROR", "SYNTAX_ERROR", "UNKNOWN_ERROR"}

\* only the build failed, and the type is still TYPESCRIPT_ERROR
C27_Witness ==
  /\ pStage = "extracted"
  /\ ReportOfBattery
  /\ pDetails.failedTests = <<"Build do Next.js">>
  /\ pOut[1].success /\ ~pOut[1].filtered
  /\ pDetails.type = "TYPESCRIPT_ERROR"

\* the headings of the report's sections
SectionHeaders ==
  {"(f) INFORMACOES DO AMBIENTE", "(r) RESUMO DOS TESTES", "(d) DETALHES DOS TESTES",
   "(a) ERROS DETALHADOS", "(f) ERROS FILTRADOS"}

TextFieldsOf(result) ==
  {result.command, result.description, result.stdout, result.stderr, result.output}

NoHeaderInTexts(results) ==
  \A i \in 1..Len(results) :
    \A text \in TextFieldsOf(results[i]) :
      \A header \in SectionHeaders : ~Includes(text, header)

\* no text has a line 'Erro <digits>: <text>' followed by a line of twenty dashes
NoErrorHeadingInTexts(results) ==
  \A i \in 1..Len(results) :
    \A text \in TextFieldsOf(results[i]) : FailedTestsFrom(text, 1) = <<>>

\* the descriptions of the results that failed and were neither skipped nor
\* filtered, in order
UnfilteredFailures(results) ==
  Descriptions(SelectSeq(results, LAMBDA r : ~r.success /\ ~r.skipped /\ ~r.filtered))

\* C28 as stated: when no text of the results has a section heading, the
\* failed tests read from the report rendered from them are the
\* descriptions of the unfiltered failures, in order.
C28_FailedTestsRoundTrip ==
  (pStage = "extracted" /\ (ReportOfBattery \/ ReportOfCatchBlock) /\ NoHeaderInTexts(pOut)) =>
    pDetails.failedTests = UnfilteredFailures(pOut)

\* C28 amended: the same, when no text of the results has a line of the form
\* of a detailed error's heading either.
C28_FailedTestsRoundTripOfPlainTexts ==
  ( /\ pStage = "extracted"
    /\ ReportOfBattery \/ ReportOfCatchBlock
    /\ NoHeaderInTexts(pOut)
    /\ NoErrorHeadingInTexts(pOut) ) =>
    pDetails.failedTests = UnfilteredFailures(pOut)

\* a filtered failure and an unfiltered one: only the second is read back
C28_Witness ==
  /\ pStage = "extracted"
  /\ ReportOfBattery
  /\ NoHeaderInTexts(pOut)
  /\ NoErrorHeadingInTexts(pOut)
  /\ ~pOut[1].success /\ pOut[1].filtered
  /\ ~pOut[2].success /\ ~pOut[2].filtered
  /\ pDetails.failedTests = <<"Verificacao ESLint">>

\* C29: one run of main has the results of all its checks, then filters
\* them, then asks the detector about the filtered results and the reports
\* that were in the directory before the run, then writes one report, which
\* carries the detector's answer; a result the filter promoted to a success
\* is no failure for the detector.
C29_ChecksFilterDetectorWrite ==
  [][MainRun =>
       /\ Descriptions(rawTestResults') =
            Descriptions(runAllTestsWith(AllOk, isPrismaInstalled, hasPrismaSchema))
       /\ testResults' = filterLogScriptErrors(rawTestResults')
       /\ isRecurrent' =>
            /\ HasRealFailure(testResults')
            /\ \E f \in logsDir.files :
                  AmongThreeNewest(logsDir, f) /\ RepeatsFailure(testResults', f)
       /\ Len(vWritten') <= 1
       /\ \A f \in logsDir'.files \ logsDir.files :
            \E k \in 1..Len(vWritten') :
              f.name = vWritten'[k].name /\ f.content = vWritten'[k].content
       /\ vThrown' = <<>> =>
            /\ Len(vWritten') = 1
            /\ vWritten'[1].content =
                 generateComprehensiveLog(testResults', isRecurrent',
                                          isPrismaInstalled, hasPrismaSchema)]_vars

\* the lint check failed with lines of the log scripts only and was promoted,
\* an earlier report with the error status names it, and the run is not
\* recurrent
C29_Witness ==
  /\ pc = "done"
  /\ Len(vWritten) = 1
  /\ vThrown = <<>>
  /\ \E i \in 1..Len(testResults) :
        /\ ~rawTestResults[i].success
        /\ testResults[i].success /\ testResults[i].filtered
        /\ \E f \in LogFilesOf(logsDir) :
              /\ f.name # vWritten[1].name
              /\ Includes(f.content, "(x) Status: ERRO")
              /\ Includes(f.content, testResults[i].description)
  /\ ~isRecurrent
  /\ Includes(vWritten[1].content, "(v) Status: SUCESSO")

\* the filtered results some later run of main could give the detector
LaterResults ==
  {filterLogScriptErrors(runAllTestsWith(plans, isPrismaInstalled, hasPrismaSchema)) :
     plans \in RunPlans}

\* C30: a run of analyzeLogs leaves every '.log' file as it was, so the
\* newest report and the detector's answer to any later results are the
\* same after it as before it; the one file it may write is the document
\* named after the diagnosed report with '.md', and diagnosing the same
\* report again rewrites that file instead of adding another.
C30_DocumentsAreNotReports ==
  [][AnalyzeLogsRun =>
       LET document == DocumentName(findMostRecentLog(logsDir).name)
           NamesOf(dir) == {f.name : f \in dir.files}
       IN /\ LogFilesOf(logsDir') = LogFilesOf(logsDir)
          /\ findMostRecentLog(logsDir') = findMostRecentLog(logsDir)
          /\ \A results \in LaterResults :
               checkIfErrorIsRecurrent(results, logsDir', "none")
                 = checkIfErrorIsRecurrent(results, logsDir, "none")
          /\ \A f \in logsDir'.files \ logsDir.files :
               f.name = document /\ EndsWith(f.name, ".md") /\ ~EndsWith(f.name, ".log")
          /\ NamesOf(logsDir') \subseteq NamesOf(logsDir) \cup {document}
          /\ Cardinality({f \in logsDir'.files : f.name = document}) <= 1]_vars

\* the same failing report was diagnosed twice: one report, one document,
\* written after the first document was
C30_Witness ==
  /\ dpc = "done"
  /\ Cardinality(logsDir.files) = 2
  /\ \E log, doc \in logsDir.files :
        /\ EndsWith(log.name, ".log")
        /\ doc.name = DocumentName(log.name)
        /\ doc.mtime >= log.mtime + 2
        /\ recentLog = log
        /\ checkIfErrorIsRecurrent(testResults, logsDir, "none")

=============================================================================
